---- MODULE Spec2Model ----
(***************************************************************************)
(* ASTROSURVEILLANCE edge server: the device control loop.                 *)
(*                                                                         *)
(* RecordingController (per-camera recording state machine), the           *)
(* PreciseTimer singleton it shares with AlarmController, the part of      *)
(* StorageManager.addRecording the recording cycle awaits, and             *)
(* AlarmController (global mode + per-camera entries).                     *)
(*                                                                         *)
(* One action per handler or callback of the event loop.  Every action     *)
(* records in `op` which handler ran, in `ret` what it returned and in     *)
(* `calls` the side-effecting calls it made, in program order.  `now` is   *)
(* the last reading of the wall clock; a handler that reads it (new Date)  *)
(* gets that reading or a later one.                                       *)
(***************************************************************************)
EXTENDS Integers, Sequences, FiniteSets, TLC

(***************************************************************************)
(* Bounds of the model.                                                    *)
(***************************************************************************)
Cameras == {"CAM1", "CAM2"}

\* the wall clock is read at ticks 0..MaxTime
MaxTime == 1

\* clock ticks per wall-clock second (sub-second resolution of Date)
TicksPerSecond == 2

\* successful startRecording calls in one run, all cameras together
MaxStarts == 2

\* the motion detector reads the clock at ticks 0..MaxFrameTime
MaxFrameTime == 4

\* candidate frames counted in one episode before the next confirmed motion
MaxFrames == 4

\* the storage manager is given recordings that started at seconds 0..MaxSecond
MaxSecond == 1

\* addRecording calls in one run
MaxAdds == 2

\* setTimeout calls of the timer in one run
MaxTimeouts == 3

\* storage operations in flight at the same time
MaxTasks == 2

\* successful startRecording calls in a run that follows the capture processes
MaxCaptures == 3

(***************************************************************************)
(* Values.                                                                 *)
(***************************************************************************)
\* RecordingState of shared/types.js (LOCKED is declared and never assigned)
RecordingState == {"IDLE", "RECORDING", "LOCKED", "SAVING", "RESET"}

Null == "null"

\* the stream URLs a caller may register or pass
Urls == {"rtsp"}

\* activeProcesses entries: none, the { simulated: true } stand-in, or the
\* ffmpeg command launched by the n-th successful start of the camera
NoProc == 0
Simulated == -1

\* currentFile and startTime of a camera that is not recording (null)
NoFile == <<>>

\* the storage operations that may be in flight, and one that is not
TaskIds == 1..MaxTasks
NoTask == [op |-> "-", stack |-> <<>>]
NoTime == -1

\* config.recording.durationSeconds as documented, and the value of a
\* property that was never set
durationSeconds == 60
Undefined == -1

\* what a handler returns: nothing, or a boolean
Nothing == <<>>
Returned(v) == <<v>>

\* cameraAlarms.get(id) of a camera that has never triggered: no entry
NoAlarm == [known |-> FALSE, isActive |-> FALSE, triggeredAt |-> 0]

\* MotionDetector.cameras.get(id) and motionState.get(id) of a camera that is
\* not attached: no entry
NoCamera == [attached |-> FALSE, enabled |-> FALSE]
NoMotionState ==
  [known |-> FALSE, isMotionActive |-> FALSE, motionStartTime |-> NoTime,
   lastMotionLevel |-> 0, consecutiveFrames |-> 0]

VARIABLES
  state,            \* cameraStates[c].state
  currentFile,      \* cameraStates[c].currentFile
  startTime,        \* cameraStates[c].startTime
  rtspUrl,          \* cameraStates[c].rtspUrl
  activeProcesses,  \* RecordingController.activeProcesses
  procs,            \* launched ffmpeg commands whose 'error'/'end' event is still to come
  saves,            \* _saveRecording calls suspended inside addRecording
  recordings,       \* StorageManager.recordings, the in-memory index
  timers,           \* PreciseTimer.timers: the keys with a pending timeout
  alarmState,       \* AlarmController.state
  cameraAlarms,     \* AlarmController.cameraAlarms
  cameras,          \* MotionDetector.cameras
  motionState,      \* MotionDetector.motionState
  indexFile,        \* the recordings array of index.json as last written
  indexExists,      \* index.json exists
  initialized,      \* StorageManager.initialize() has resolved in this process
  disk,             \* the size of each recording file, 0 when it does not exist
  stats,            \* StorageManager.stats
  nAdded,           \* addRecording calls so far (the entry id is unique per call)
  now,              \* the last reading of the wall clock, in ticks
  op,               \* the handler that ran in the last step
  ret,              \* what it returned
  calls,            \* the calls it made, in order
  nStarts,          \* successful starts per camera (the number of its current cycle)
  filesUsed,        \* the file names successful starts have assigned so far
  cycle,            \* per camera, what has happened since its last successful start
  run,              \* per camera, the candidate frames since the last other frame
  timeoutOf,        \* PreciseTimer.timers.get(id).timeoutId, per key of the map
  pending,          \* the host's timeouts that are set and neither cleared nor run
  nTimeouts,        \* setTimeout calls so far (a timeout is a fresh object per call)
  ran,              \* the timeouts whose callback has run, in order
  retired,          \* the timeouts whose timer was stopped or replaced in the map
  tasks             \* the storage operations suspended at an await, each with its frames

recVars == <<state, currentFile, startTime, rtspUrl, activeProcesses, procs, saves,
             recordings>>
alarmVars == <<alarmState, cameraAlarms>>
histVars == <<nStarts, filesUsed, cycle>>
motionVars == <<cameras, motionState, run>>
storeVars == <<indexFile, indexExists, initialized, disk, stats, nAdded, tasks>>
timeoutVars == <<timeoutOf, pending, nTimeouts, ran, retired>>
vars == <<recVars, timers, alarmVars, motionVars, storeVars, timeoutVars, now, op, ret,
          calls, histVars>>

(***************************************************************************)
(* shared/types.js                                                         *)
(***************************************************************************)
\* generateVideoFilename: <cameraId>_<date>_<HH-MM-SS>.mp4, the timestamp
\* formatted down to whole seconds
generateVideoFilename(cameraId, timestamp) ==
  <<cameraId, timestamp \div TicksPerSecond>>

\* the recording files the storage manager is told about, and the sizes a
\* file can have, in percent of the card (0: no such file)
FileNames == {generateVideoFilename("CAM1", s * TicksPerSecond) : s \in 0..MaxSecond}
Sizes == {40, 45}

(***************************************************************************)
(* utils/Timer.js: PreciseTimer                                            *)
(***************************************************************************)
TimerKey(kind, c) == <<kind, c>>
CooldownKey == <<"alarm_cooldown", "-">>

\* stop(id): clearTimeout and delete the key
TimerStop(ts, k) == ts \ {k}

\* start(id, ms, cb): stop(id), then setTimeout and timers.set(id, timer)
TimerStart(ts, k) == TimerStop(ts, k) \cup {k}

\* stopAll(): clear every timeout
TimerStopAll(ts) == {}

\* isActive(id)
TimerIsActive(ts, k) == k \in ts

\* the keys the timer is exercised with, call by call
TimerIds == {TimerKey("recording", "CAM1"), TimerKey("reset", "CAM1")}

\* timeoutId: null
NoTimeout == 0

\* the object setTimeout returns: it carries the key and the callback of the
\* start that made it
Timeout(k, n) == <<k, n>>

(***************************************************************************)
(* The calls a handler makes, as they appear in `calls`.                   *)
(***************************************************************************)
Call(name, a, b) == <<name, a, b>>
Emit(event, c, arg) == Call("emit", event, <<c, arg>>)
SetState(c, s) == Call("state=", c, s)
Made(cs, call) == \E i \in 1..Len(cs) : cs[i] = call
CountCalls(cs, call) == Cardinality({i \in 1..Len(cs) : cs[i] = call})
\* a and b are both made, every a before every b
Before(cs, a, b) ==
  /\ Made(cs, a)
  /\ Made(cs, b)
  /\ \A i, j \in 1..Len(cs) : (cs[i] = a /\ cs[j] = b) => i < j

\* what the step's handler was, returned and called
Did(o, r, cs) == op' = o /\ ret' = r /\ calls' = cs

(***************************************************************************)
(* What a run has shown so far, per camera, since the camera's last        *)
(* successful start:                                                       *)
(*   quiet     the start found no suspended save and no ffmpeg command of  *)
(*             the camera left over from an earlier cycle                  *)
(*   clean     no forceStop, capture error or failed index write has       *)
(*             touched the camera since                                    *)
(*   fired     the duration timer has fired (kept while clean)             *)
(*   path      the phases the camera went through (kept while clean)       *)
(*   pushed    the index entries pushed with its cameraId (kept while      *)
(*             clean)                                                      *)
(*   outcomes  the recordingComplete and recordingError events emitted     *)
(*   ready     a recordingReady event has followed the last of them        *)
(*   errored   a capture error arrived while the phase was RECORDING       *)
(***************************************************************************)
NoCycle ==
  [quiet |-> TRUE, clean |-> TRUE, fired |-> FALSE, path |-> <<"IDLE">>, pushed |-> 0,
   outcomes |-> 0, ready |-> FALSE, errored |-> FALSE]

Last(seq) == seq[Len(seq)]

Visit(cy, s) ==
  IF cy.clean /\ Last(cy.path) # s THEN [cy EXCEPT !.path = Append(@, s)] ELSE cy

Disturbed(cy) ==
  [cy EXCEPT !.clean = FALSE, !.fired = FALSE, !.path = <<>>, !.pushed = 0]

Fired(cy) == IF cy.clean THEN [cy EXCEPT !.fired = TRUE] ELSE cy

Started(quiet) ==
  [quiet |-> quiet, clean |-> TRUE, fired |-> FALSE, path |-> <<"IDLE", "RECORDING">>,
   pushed |-> 0, outcomes |-> 0, ready |-> FALSE, errored |-> FALSE]

\* a forceStop reaches the camera: its cycle, if it has had one, is not clean
Interrupted(cy, n) == IF n > 0 THEN Disturbed(cy) ELSE cy

Outcome(cy) == [cy EXCEPT !.outcomes = @ + 1, !.ready = FALSE]

(***************************************************************************)
(* What a run has shown so far, per camera, of the frames the motion       *)
(* detector has processed since the camera was attached or since the last  *)
(* frame that was not a candidate:                                         *)
(*   len     how many candidate frames in a row, counted up to three       *)
(*   start   the clock reading of the first of them                        *)
(*   recent  the last three of them: the clock reading of each and         *)
(*           whether a MOTION_START event was emitted on it                *)
(***************************************************************************)
NoRun == [len |-> 0, start |-> NoTime, recent |-> <<>>]

LastThree(seq) == IF Len(seq) <= 3 THEN seq ELSE SubSeq(seq, Len(seq) - 2, Len(seq))

Candidate(r, t, emitted) ==
  [len |-> IF r.len < 3 THEN r.len + 1 ELSE 3,
   start |-> IF r.len = 0 THEN t ELSE r.start,
   recent |-> LastThree(Append(r.recent, [t |-> t, emitted |-> emitted]))]

TotalStarts == LET Sum[S \in SUBSET Cameras] ==
                     IF S = {} THEN 0
                     ELSE LET c == CHOOSE x \in S : TRUE
                          IN nStarts[c] + Sum[S \ {c}]
               IN Sum[Cameras]

(***************************************************************************)
(* Initial state: the controllers as constructed, an empty index.          *)
(***************************************************************************)
Init ==
  /\ state = [c \in Cameras |-> "IDLE"]
  /\ currentFile = [c \in Cameras |-> NoFile]
  /\ startTime = [c \in Cameras |-> NoTime]
  /\ rtspUrl = [c \in Cameras |-> Null]
  /\ activeProcesses = [c \in Cameras |-> NoProc]
  /\ procs = {}
  /\ saves = {}
  /\ recordings = <<>>
  /\ timers = {}
  /\ alarmState = "ARMED"
  /\ cameraAlarms = [c \in Cameras |-> NoAlarm]
  /\ now = 0
  /\ op = <<"init", "-">>
  /\ ret = Nothing
  /\ calls = <<>>
  /\ nStarts = [c \in Cameras |-> 0]
  /\ filesUsed = {}
  /\ cycle = [c \in Cameras |-> NoCycle]
  /\ cameras = [c \in Cameras |-> NoCamera]
  /\ motionState = [c \in Cameras |-> NoMotionState]
  /\ run = [c \in Cameras |-> NoRun]
  /\ indexFile = <<>>
  /\ indexExists = FALSE
  /\ initialized = FALSE
  /\ disk = [f \in FileNames |-> 0]
  /\ stats = [usagePercent |-> 0, health |-> "HEALTHY"]
  /\ nAdded = 0
  /\ timeoutOf = [k \in TimerIds |-> NoTimeout]
  /\ pending = {}
  /\ nTimeouts = 0
  /\ ran = <<>>
  /\ retired = {}
  /\ tasks = [id \in TaskIds |-> NoTask]

(***************************************************************************)
(* modules/RecordingController.js                                          *)
(***************************************************************************)
\* the guard of a controller that also accepts a start during the reset delay
CanStartOrReset(c) == state[c] \in {"IDLE", "RESET"}

\* startRecording's guard: "CRITICAL: Only start if in IDLE state"
CanStart(c) == state[c] = "IDLE"

\* _startFFmpegRecording: without a URL the { simulated: true } stand-in is
\* registered; otherwise an ffmpeg command is built, run and registered
StartedProcess(c, url, n) == IF url = Null THEN Simulated ELSE n

LaunchedProcs(ps, c, url, n) ==
  IF url = Null THEN ps ELSE ps \cup {[cam |-> c, cyc |-> n, killed |-> FALSE]}

\* _stopFFmpegRecording: SIGTERM to the registered command unless it is the
\* simulated stand-in, then activeProcesses.delete; the command's 'error' or
\* 'end' event is still to come
StopFFmpeg(c) == Call("stopFFmpeg", c, activeProcesses[c])

\* the commands after _stopFFmpegRecording(c): the one registered for the
\* camera, if it is still running, has been sent SIGTERM
SigTermed(ps, c) ==
  {IF p.cam = c /\ p.cyc = activeProcesses[c] THEN [p EXCEPT !.killed = TRUE] ELSE p :
     p \in ps}

\* nothing of an earlier cycle of the camera is still to come
Quiet(c) == (\A s \in saves : s.cam # c) /\ (\A p \in procs : p.cam # c)

\* startRecording(cameraId, rtspUrl), in a run of at most `starts`
\* successful starts
StartRecordingWithin(c, url, t, starts) ==
  IF ~CanStart(c)
  THEN /\ Did(<<"startRecording", c>>, Returned(FALSE), <<>>)
       /\ UNCHANGED <<recVars, timers, alarmVars, now, histVars>>
  ELSE /\ TotalStarts < starts
       /\ LET n == nStarts[c] + 1
              file == generateVideoFilename(c, t)
              u == IF url # Null THEN url ELSE rtspUrl[c]
          IN /\ state' = [state EXCEPT ![c] = "RECORDING"]
             /\ now' = t
             /\ startTime' = [startTime EXCEPT ![c] = t]
             /\ currentFile' = [currentFile EXCEPT ![c] = file]
             /\ rtspUrl' = [rtspUrl EXCEPT ![c] = u]
             /\ activeProcesses' = [activeProcesses EXCEPT ![c] = StartedProcess(c, u, n)]
             /\ procs' = LaunchedProcs(procs, c, u, n)
             /\ timers' = TimerStart(timers, TimerKey("recording", c))
             /\ Did(<<"startRecording", c>>, Returned(TRUE),
                    <<SetState(c, "RECORDING"),
                      Call("startFFmpeg", c, file),
                      Call("Timer.start", "recording", c),
                      Emit("recordingStarted", c, file)>>)
             /\ nStarts' = [nStarts EXCEPT ![c] = n]
             /\ filesUsed' = filesUsed \cup {file}
             /\ cycle' = [cycle EXCEPT ![c] = Started(Quiet(c))]
       /\ UNCHANGED <<saves, recordings, alarmVars>>

StartRecording(c, url, t) == StartRecordingWithin(c, url, t, MaxStarts)

\* registerCamera(cameraId, rtspUrl)
RegisterCamera(c, url) ==
  /\ rtspUrl' = [rtspUrl EXCEPT ![c] = url]
  /\ Did(<<"registerCamera", c>>, Nothing, <<>>)
  /\ UNCHANGED <<state, currentFile, startTime, activeProcesses, procs, saves,
                 recordings, timers, alarmVars, now, histVars>>

\* an _onTimerEnd without its guard
TimerEndUnguarded(c) == TRUE

\* _onTimerEnd's guard
TimerEndGuard(c) == state[c] = "RECORDING"

\* the setTimeout callback of Timer.start("recording_<id>"): the key is
\* deleted, then _onTimerEnd runs; behind its guard it stops ffmpeg, enters
\* SAVING and calls _saveRecording, which suspends inside addRecording
RecordingTimerFires(c) ==
  /\ TimerIsActive(timers, TimerKey("recording", c))
  /\ timers' = TimerStop(timers, TimerKey("recording", c))
  /\ IF ~TimerEndGuard(c)
     THEN /\ Did(<<"recordingTimer", c>>, Nothing, <<>>)
          /\ cycle' = [cycle EXCEPT ![c] = Fired(@)]
          /\ UNCHANGED <<recVars, alarmVars, now, nStarts, filesUsed>>
     ELSE /\ activeProcesses' = [activeProcesses EXCEPT ![c] = NoProc]
          /\ state' = [state EXCEPT ![c] = "SAVING"]
          /\ saves' = saves \cup {[cam |-> c, cyc |-> nStarts[c],
                                   filename |-> currentFile[c],
                                   timestamp |-> startTime[c], pc |-> "stat"]}
          /\ Did(<<"recordingTimer", c>>, Nothing,
                 <<StopFFmpeg(c),
                   SetState(c, "SAVING"),
                   Call("addRecording", c, currentFile[c])>>)
          /\ cycle' = [cycle EXCEPT ![c] = Visit(Fired(@), "SAVING")]
          /\ procs' = SigTermed(procs, c)
          /\ UNCHANGED <<currentFile, startTime, rtspUrl, recordings, alarmVars,
                         now, nStarts, filesUsed>>

(***************************************************************************)
(* modules/StorageManager.js, as far as a recording cycle awaits it        *)
(***************************************************************************)
\* the entry addRecording builds; its id (time + random suffix) is unique
\* per call, and there is one call per cycle of a camera
IndexEntry(s) ==
  [id |-> <<s.cam, s.cyc>>, cameraId |-> s.cam, filename |-> s.filename,
   timestamp |-> s.timestamp, duration |-> durationSeconds]

\* addRecording resumes after fs.stat: the entry is pushed and _saveIndex
\* starts writing the index file
AddRecordingPush(s) ==
  /\ s \in saves
  /\ s.pc = "stat"
  /\ recordings' = Append(recordings, IndexEntry(s))
  /\ saves' = (saves \ {s}) \cup {[s EXCEPT !.pc = "write"]}
  /\ cycle' = [cycle EXCEPT ![s.cam].pushed = IF cycle[s.cam].clean THEN @ + 1 ELSE @]
  /\ Did(<<"addRecording.push", s.cam>>, Nothing,
         <<Call("recordings.push", s.cam, s.filename)>>)
  /\ UNCHANGED <<state, currentFile, startTime, rtspUrl, activeProcesses, procs,
                 timers, alarmVars, now, nStarts, filesUsed>>

\* a _saveRecording that goes straight back to IDLE, without the reset delay
EnterIdle(c) ==
  /\ state' = [state EXCEPT ![c] = "IDLE"]
  /\ timers' = timers

\* _saveRecording after the await, then _onReset: RESET is entered and the
\* reset timer started whatever the phase has become in the meantime
EnterReset(c) ==
  /\ state' = [state EXCEPT ![c] = "RESET"]
  /\ timers' = TimerStart(timers, TimerKey("reset", c))

\* addRecording returns: the index file is written and _updateStorageStats
\* has run (the disk is below the cleanup ceiling: no entry is evicted);
\* _saveRecording emits recordingComplete with the file name the camera
\* state holds now
AddRecordingResolves(s) ==
  /\ s \in saves
  /\ s.pc = "write"
  /\ saves' = saves \ {s}
  /\ recordings' = recordings
  /\ EnterReset(s.cam)
  /\ cycle' = [cycle EXCEPT ![s.cam] = Visit(Outcome(@), "RESET")]
  /\ Did(<<"addRecording.resolved", s.cam>>, Nothing,
         <<Emit("recordingComplete", s.cam, currentFile[s.cam]),
           SetState(s.cam, "RESET"),
           Call("Timer.start", "reset", s.cam)>>)
  /\ UNCHANGED <<currentFile, startTime, rtspUrl, activeProcesses, procs, alarmVars,
                 now, nStarts, filesUsed>>

\* a _saveRecording without its try/catch: the rejection ends it, and the
\* camera stays in SAVING
AddRecordingRejectsUncaught(s) ==
  /\ s \in saves
  /\ s.pc = "write"
  /\ saves' = saves \ {s}
  /\ cycle' = [cycle EXCEPT ![s.cam] = Disturbed(@)]
  /\ Did(<<"addRecording.rejected", s.cam>>, Nothing, <<>>)
  /\ UNCHANGED <<state, currentFile, startTime, rtspUrl, activeProcesses, procs,
                 recordings, timers, alarmVars, now, nStarts, filesUsed>>

\* addRecording throws (fs.writeFile of the index failed): the pushed entry
\* stays in memory, _saveRecording logs the error and goes on to RESET
AddRecordingRejects(s) ==
  /\ s \in saves
  /\ s.pc = "write"
  /\ saves' = saves \ {s}
  /\ EnterReset(s.cam)
  /\ cycle' = [cycle EXCEPT ![s.cam] = Disturbed(@)]
  /\ Did(<<"addRecording.rejected", s.cam>>, Nothing,
         <<SetState(s.cam, "RESET"), Call("Timer.start", "reset", s.cam)>>)
  /\ UNCHANGED <<currentFile, startTime, rtspUrl, activeProcesses, procs, recordings,
                 alarmVars, now, nStarts, filesUsed>>

\* the setTimeout callback of Timer.start("reset_<id>") in _onReset
ResetTimerFires(c) ==
  /\ TimerIsActive(timers, TimerKey("reset", c))
  /\ timers' = TimerStop(timers, TimerKey("reset", c))
  /\ state' = [state EXCEPT ![c] = "IDLE"]
  /\ currentFile' = [currentFile EXCEPT ![c] = NoFile]
  /\ startTime' = [startTime EXCEPT ![c] = NoTime]
  /\ cycle' = [cycle EXCEPT ![c] = [Visit(@, "IDLE") EXCEPT !.ready = TRUE]]
  /\ Did(<<"resetTimer", c>>, Nothing,
         <<SetState(c, "IDLE"), Emit("recordingReady", c, Null)>>)
  /\ UNCHANGED <<rtspUrl, activeProcesses, procs, saves, recordings, alarmVars, now,
                 nStarts, filesUsed>>

\* an error handler that leaves the duration timer running
ErrorTimersKeepRecording(ts, c) == TimerStart(ts, TimerKey("reset", c))

\* an error handler that forgets to start the reset delay
ErrorTimersNoReset(ts, c) == TimerStop(ts, TimerKey("recording", c))

\* _handleRecordingError: the duration timer is stopped, the process
\* forgotten, RESET forced
ErrorTimers(ts, c) ==
  TimerStart(TimerStop(ts, TimerKey("recording", c)), TimerKey("reset", c))

\* the 'error' event of an ffmpeg command: _handleRecordingError(cameraId)
ProcError(p) ==
  /\ p \in procs
  /\ procs' = procs \ {p}
  /\ timers' = ErrorTimers(timers, p.cam)
  /\ activeProcesses' = [activeProcesses EXCEPT ![p.cam] = NoProc]
  /\ state' = [state EXCEPT ![p.cam] = "RESET"]
  /\ cycle' = [cycle EXCEPT ![p.cam] =
                 [Outcome(Disturbed(@)) EXCEPT
                    !.errored = @ \/ state[p.cam] = "RECORDING"]]
  /\ Did(<<"ffmpeg.error", p.cam>>, Nothing,
         <<Call("Timer.stop", "recording", p.cam),
           SetState(p.cam, "RESET"),
           Call("Timer.start", "reset", p.cam),
           Emit("recordingError", p.cam, Null)>>)
  /\ UNCHANGED <<currentFile, startTime, rtspUrl, saves, recordings, alarmVars, now,
                 nStarts, filesUsed>>

\* the 'end' event of an ffmpeg command: logged only
ProcEnd(p) ==
  /\ p \in procs
  /\ procs' = procs \ {p}
  /\ Did(<<"ffmpeg.end", p.cam>>, Nothing, <<>>)
  /\ UNCHANGED <<state, currentFile, startTime, rtspUrl, activeProcesses, saves,
                 recordings, timers, alarmVars, now, histVars>>

\* a forceStop that clears the timer singleton
ForceStopTimersOfAll(ts, c) == TimerStopAll(ts)

\* a forceStop that cancels the duration timer only
ForceStopTimersRecordingOnly(ts, c) == TimerStop(ts, TimerKey("recording", c))

\* forceStop(cameraId)
ForceStopTimers(ts, c) ==
  TimerStop(TimerStop(ts, TimerKey("recording", c)), TimerKey("reset", c))

ForceStopCalls(c) ==
  <<Call("Timer.stop", "recording", c),
    Call("Timer.stop", "reset", c),
    StopFFmpeg(c),
    SetState(c, "IDLE")>>

ForceStop(c) ==
  /\ timers' = ForceStopTimers(timers, c)
  /\ activeProcesses' = [activeProcesses EXCEPT ![c] = NoProc]
  /\ state' = [state EXCEPT ![c] = "IDLE"]
  /\ currentFile' = [currentFile EXCEPT ![c] = NoFile]
  /\ startTime' = [startTime EXCEPT ![c] = NoTime]
  /\ cycle' = [cycle EXCEPT ![c] = Interrupted(@, nStarts[c])]
  /\ Did(<<"forceStop", c>>, Nothing, ForceStopCalls(c))
  /\ procs' = SigTermed(procs, c)
  /\ UNCHANGED <<rtspUrl, saves, recordings, alarmVars, now, nStarts, filesUsed>>

\* stopAll(): forceStop for every camera state, then Timer.stopAll() on the
\* timer singleton
StopAll ==
  /\ timers' = TimerStopAll(timers)
  /\ activeProcesses' = [c \in Cameras |-> NoProc]
  /\ state' = [c \in Cameras |-> "IDLE"]
  /\ currentFile' = [c \in Cameras |-> NoFile]
  /\ startTime' = [c \in Cameras |-> NoTime]
  /\ cycle' = [c \in Cameras |-> Interrupted(cycle[c], nStarts[c])]
  /\ Did(<<"stopAll", "-">>, Nothing,
         <<Call("forceStop", "*", "*"), Call("Timer.stopAll", "*", "*")>>)
  /\ procs' = {IF p.cyc = activeProcesses[p.cam] THEN [p EXCEPT !.killed = TRUE] ELSE p :
                 p \in procs}
  /\ UNCHANGED <<rtspUrl, saves, recordings, alarmVars, now, nStarts, filesUsed>>

(***************************************************************************)
(* modules/AlarmController.js                                              *)
(***************************************************************************)
IsActive(alarms, c) == alarms[c].known /\ alarms[c].isActive

\* an _onAlarmTimeout that does not look at the other cameras' entries
NeverActive(alarms) == FALSE

AnyActive(alarms) == \E c \in Cameras : IsActive(alarms, c)

\* isActive = false on the entry, if the camera has one
Deactivated(alarms, c) ==
  IF ~alarms[c].known THEN alarms ELSE [alarms EXCEPT ![c].isActive = FALSE]

\* a stop() that leaves the entries as they are
AllLeftActive(alarms) == alarms

\* stop(): isActive = false on every entry
AllDeactivated(alarms) ==
  [c \in Cameras |->
     IF ~alarms[c].known THEN alarms[c] ELSE [alarms[c] EXCEPT !.isActive = FALSE]]

AllAlarmTimersStopped(ts, alarms) ==
  ts \ {TimerKey("alarm", c) : c \in {x \in Cameras : alarms[x].known}}

\* a trigger without the cooldown check
TriggerBlockedNoCooldown(c) ==
  \/ alarmState = "DISARMED"
  \/ IsActive(cameraAlarms, c)

\* trigger's three early returns: disarmed, in cooldown, camera already active
TriggerBlocked(c) ==
  \/ alarmState = "DISARMED"
  \/ alarmState = "COOLDOWN"
  \/ IsActive(cameraAlarms, c)

\* the alarm hardware at a call: no interface is set (the siren is simulated
\* in the log), or the interface's method returns, or it throws
HardwareOutcomes == {"none", "ok", "throws"}

\* _activateHardwareAlarm and _deactivateHardwareAlarm: with an interface set,
\* its method is called
HardwareCalls(wrapper, method, h) ==
  <<Call(wrapper, "-", "-")>> \o
  (IF h = "none" THEN <<>> ELSE <<Call("hardwareInterface", method, h)>>)

\* a handler ended by an exception
Thrown == Call("throw", "-", "-")

\* wrappers without try/catch: what the interface throws leaves the wrapper
HardwareUncaught(h) == h # "throws"

\* the try/catch around the interface's method: the wrapper logs what the
\* interface throws and returns
HardwareCaught(h) == TRUE

\* trigger(cameraId)
Trigger(c, t, h) ==
  IF TriggerBlocked(c)
  THEN /\ Did(<<"trigger", c>>, Returned(FALSE), <<>>)
       /\ UNCHANGED <<recVars, timers, alarmVars, now, histVars>>
  ELSE /\ alarmState' = "TRIGGERED"
       /\ now' = t
       /\ cameraAlarms' = [cameraAlarms EXCEPT ![c] = [known |-> TRUE, isActive |-> TRUE, triggeredAt |-> t]]
       /\ IF HardwareCaught(h)
          THEN /\ timers' = TimerStart(timers, TimerKey("alarm", c))
               /\ Did(<<"trigger", c>>, Returned(TRUE),
                      <<Call("alarmState=", "TRIGGERED", "-")>> \o
                      HardwareCalls("activateHardwareAlarm", "activate", h) \o
                      <<Emit("alarmTriggered", c, Null),
                        Call("Timer.start", "alarm", c)>>)
          ELSE /\ timers' = timers
               /\ Did(<<"trigger", c>>, Nothing,
                      <<Call("alarmState=", "TRIGGERED", "-")>> \o
                      HardwareCalls("activateHardwareAlarm", "activate", h) \o
                      <<Thrown>>)
       /\ UNCHANGED <<recVars, histVars>>

\* the setTimeout callback of Timer.start("alarm_<id>"): _onAlarmTimeout, and
\* _enterCooldown when no entry is active any more
AlarmTimerFires(c, h) ==
  /\ TimerIsActive(timers, TimerKey("alarm", c))
  /\ LET alarms == Deactivated(cameraAlarms, c)
         ts == TimerStop(timers, TimerKey("alarm", c))
     IN /\ cameraAlarms' = alarms
        /\ IF AnyActive(alarms)
           THEN /\ alarmState' = alarmState
                /\ timers' = ts
                /\ Did(<<"alarmTimer", c>>, Nothing, <<Emit("alarmStopped", c, Null)>>)
           ELSE IF HardwareCaught(h)
           THEN /\ alarmState' = "COOLDOWN"
                /\ timers' = TimerStart(ts, CooldownKey)
                /\ Did(<<"alarmTimer", c>>, Nothing,
                       HardwareCalls("deactivateHardwareAlarm", "deactivate", h) \o
                       <<Call("alarmState=", "COOLDOWN", "-"),
                         Call("Timer.start", "alarm_cooldown", "-"),
                         Emit("alarmStopped", c, Null)>>)
           ELSE /\ alarmState' = alarmState
                /\ timers' = ts
                /\ Did(<<"alarmTimer", c>>, Nothing,
                       HardwareCalls("deactivateHardwareAlarm", "deactivate", h) \o
                       <<Thrown>>)
  /\ UNCHANGED <<recVars, now, histVars>>

\* the setTimeout callback of Timer.start("alarm_cooldown") in _enterCooldown
CooldownTimerFires ==
  /\ TimerIsActive(timers, CooldownKey)
  /\ timers' = TimerStop(timers, CooldownKey)
  /\ alarmState' = "ARMED"
  /\ Did(<<"cooldownTimer", "-">>, Nothing, <<Call("alarmState=", "ARMED", "-")>>)
  /\ UNCHANGED <<recVars, cameraAlarms, now, histVars>>

\* a stop that leaves the timers running
StopTimersKeep(ts, alarms, c) == ts

\* stop(cameraId): that camera's timer and entry; stop(): every entry's
StopTimers(ts, alarms, c) ==
  IF c # Null THEN TimerStop(ts, TimerKey("alarm", c)) ELSE AllAlarmTimersStopped(ts, alarms)

StopAlarms(alarms, c) ==
  IF c # Null THEN Deactivated(alarms, c) ELSE AllDeactivated(alarms)

\* a stop that goes through the cooldown
StopModeCooldown == "COOLDOWN"

\* the mode stop() leaves
StopMode == "ARMED"

StopCalls(c, h) ==
  <<Call("Timer.stop", "alarm", IF c # Null THEN c ELSE "*")>> \o
  HardwareCalls("deactivateHardwareAlarm", "deactivate", h) \o
  <<Call("alarmState=", StopMode, "-"),
    Emit("alarmStopped", c, Null)>>

\* stop as far as it gets when the hardware call throws out of its wrapper
StopInterrupted(c, h) ==
  <<Call("Timer.stop", "alarm", IF c # Null THEN c ELSE "*")>> \o
  HardwareCalls("deactivateHardwareAlarm", "deactivate", h) \o
  <<Thrown>>

Stop(c, h) ==
  /\ timers' = StopTimers(timers, cameraAlarms, c)
  /\ cameraAlarms' = StopAlarms(cameraAlarms, c)
  /\ IF HardwareCaught(h)
     THEN /\ alarmState' = StopMode
          /\ Did(<<"stop", c>>, Nothing, StopCalls(c, h))
     ELSE /\ alarmState' = alarmState
          /\ Did(<<"stop", c>>, Nothing, StopInterrupted(c, h))
  /\ UNCHANGED <<recVars, now, histVars>>

\* arm()
Arm ==
  /\ alarmState' = "ARMED"
  /\ Did(<<"arm", "-">>, Nothing,
         <<Call("alarmState=", "ARMED", "-"), Emit("alarmArmed", Null, Null)>>)
  /\ UNCHANGED <<recVars, timers, cameraAlarms, now, histVars>>

\* disarm(): stop(), then DISARMED
Disarm(h) ==
  /\ timers' = StopTimers(timers, cameraAlarms, Null)
  /\ cameraAlarms' = StopAlarms(cameraAlarms, Null)
  /\ IF HardwareCaught(h)
     THEN /\ alarmState' = "DISARMED"
          /\ Did(<<"disarm", "-">>, Nothing,
                 StopCalls(Null, h) \o
                 <<Call("alarmState=", "DISARMED", "-"), Emit("alarmDisarmed", Null, Null)>>)
     ELSE /\ alarmState' = alarmState
          /\ Did(<<"disarm", "-">>, Nothing, StopInterrupted(Null, h))
  /\ UNCHANGED <<recVars, now, histVars>>

(***************************************************************************)
(* modules/MotionDetector.js                                               *)
(***************************************************************************)
\* the constructor's defaults; minDurationMs in clock ticks
threshold == 15
minDurationMs == 2
minPixelChangePercent == 5
ignoreShadows == TRUE
ignoreLightingChanges == TRUE
sensitivityLevel == "medium"

\* sensitivityMap, in tenths
sensitivityMap == [low |-> 15, medium |-> 10, high |-> 6]

\* the frame analyses a caller may submit
MotionLevels == {10, 20}
Frames ==
  [motionLevel : MotionLevels, pixelChangePercent : {0, 10},
   hasShadow : BOOLEAN, hasLightingChange : BOOLEAN]

\* _validateMotion: the four anti-false-trigger rules
ValidateMotion(data) ==
  LET sensitivity == sensitivityMap[sensitivityLevel]
      adjustedThreshold == threshold * sensitivity
  IN IF data.motionLevel * 10 < adjustedThreshold THEN FALSE
     ELSE IF data.pixelChangePercent < minPixelChangePercent THEN FALSE
     ELSE IF ignoreShadows /\ data.hasShadow THEN FALSE
     ELSE IF ignoreLightingChanges /\ data.hasLightingChange THEN FALSE
     ELSE TRUE

\* a debounce gate that only counts frames
ConfirmedByCount(duration, frames) == frames >= 3

\* _processMotion's gate
Confirmed(duration, frames) == duration >= minDurationMs /\ frames >= 3

\* a _processMotion that counts only the frames of an open episode
TrackedOpeningUncounted(st, level, t) ==
  IF ~st.isMotionActive
  THEN [st EXCEPT !.lastMotionLevel = level, !.motionStartTime = t, !.isMotionActive = TRUE]
  ELSE [st EXCEPT !.lastMotionLevel = level, !.consecutiveFrames = @ + 1]

\* _processMotion up to the gate: the level is stored, the frame is counted,
\* and an episode is opened if none is open
Tracked(st, level, t) ==
  LET counted == [st EXCEPT !.lastMotionLevel = level, !.consecutiveFrames = @ + 1]
  IN IF ~counted.isMotionActive
     THEN [counted EXCEPT !.motionStartTime = t, !.isMotionActive = TRUE]
     ELSE counted

MotionConfirmed(st, level, t) ==
  LET tracked == Tracked(st, level, t)
  IN Confirmed(t - tracked.motionStartTime, tracked.consecutiveFrames)

\* _processMotion: after a MOTION_START the episode start and the counter
\* are reset "to prevent duplicate triggers"
ProcessMotion(st, level, t) ==
  LET tracked == Tracked(st, level, t)
  IN IF MotionConfirmed(st, level, t)
     THEN [tracked EXCEPT !.motionStartTime = t, !.consecutiveFrames = 0]
     ELSE tracked

\* a _processNoMotion that does not look at isMotionActive
EpisodeAlwaysOpen(st) == TRUE

\* _processNoMotion's guard
EpisodeOpen(st) == st.isMotionActive

\* _processNoMotion
ProcessNoMotion(st) ==
  IF EpisodeOpen(st)
  THEN [st EXCEPT !.isMotionActive = FALSE, !.consecutiveFrames = 0]
  ELSE st

\* index.js, motionDetector.on('motion', ...): the one listener of the
\* detector's 'motion' events.  It runs inside emit, for an event of either
\* type: it broadcasts, calls alarmController.trigger(cameraId) and then
\* recordingController.startRecording(cameraId)
ListenerCalls(c) ==
  <<Call("broadcast", "MOTION_DETECTED", c),
    Call("trigger", c, "-"),
    Call("startRecording", c, "-")>>

\* what the detector emits and, inside the emit, the listener calls
MotionCalls(c, type) == <<Emit("motion", c, type)>> \o ListenerCalls(c)

\* the listener's trigger(cameraId), as Trigger
ListenerTrigger(c, t) ==
  IF TriggerBlocked(c)
  THEN UNCHANGED alarmVars
  ELSE /\ alarmState' = "TRIGGERED"
       /\ cameraAlarms' = [cameraAlarms EXCEPT
                             ![c] = [known |-> TRUE, isActive |-> TRUE, triggeredAt |-> t]]

\* a listener that starts the recording only when trigger returned true
ListenerStartsIfTriggered(c) == CanStart(c) /\ ~TriggerBlocked(c)

\* the listener calls startRecording whatever trigger returned: the recording
\* starts when the recording controller accepts it
ListenerStarts(c) == CanStart(c)

\* the listener's startRecording(cameraId), as StartRecording without a URL
ListenerStart(c, t) ==
  IF ~ListenerStarts(c)
  THEN UNCHANGED <<recVars, histVars>>
  ELSE /\ TotalStarts < MaxStarts
       /\ LET n == nStarts[c] + 1
              file == generateVideoFilename(c, t)
              u == rtspUrl[c]
          IN /\ state' = [state EXCEPT ![c] = "RECORDING"]
             /\ startTime' = [startTime EXCEPT ![c] = t]
             /\ currentFile' = [currentFile EXCEPT ![c] = file]
             /\ activeProcesses' = [activeProcesses EXCEPT ![c] = StartedProcess(c, u, n)]
             /\ procs' = LaunchedProcs(procs, c, u, n)
             /\ nStarts' = [nStarts EXCEPT ![c] = n]
             /\ filesUsed' = filesUsed \cup {file}
             /\ cycle' = [cycle EXCEPT ![c] = Started(Quiet(c))]
       /\ UNCHANGED <<rtspUrl, saves, recordings>>

ListenerTimers(c) ==
  LET alarm == IF TriggerBlocked(c) THEN timers
               ELSE TimerStart(timers, TimerKey("alarm", c))
  IN IF ListenerStarts(c) THEN TimerStart(alarm, TimerKey("recording", c)) ELSE alarm

\* emit('motion', cameraId, {type, ...}) with its listener
EmitMotion(c, t) ==
  /\ ListenerTrigger(c, t)
  /\ ListenerStart(c, t)
  /\ timers' = ListenerTimers(c)
  /\ now' = t

NoEmit == UNCHANGED <<recVars, timers, alarmVars, histVars>>

\* a detector without the two early returns
NeverDropped(c) == FALSE

\* a call the detector drops: unknown camera, or camera disabled
Dropped(c) == ~cameras[c].attached \/ ~cameras[c].enabled

\* _processMotion with what it emits
Motion(o, c, level, t) ==
  /\ motionState[c].consecutiveFrames < MaxFrames
  /\ motionState' = [motionState EXCEPT ![c] = ProcessMotion(@, level, t)]
  /\ IF MotionConfirmed(motionState[c], level, t)
     THEN /\ EmitMotion(c, t)
          /\ Did(o, Nothing,
                 <<Call("_processMotion", c, level)>> \o MotionCalls(c, "MOTION_START"))
          /\ run' = [run EXCEPT ![c] = Candidate(@, t, TRUE)]
     ELSE /\ NoEmit
          /\ now' = t
          /\ Did(o, Nothing, <<Call("_processMotion", c, level)>>)
          /\ run' = [run EXCEPT ![c] = Candidate(@, t, FALSE)]
  /\ UNCHANGED cameras

\* _processNoMotion with what it emits
NoMotion(o, c, t) ==
  /\ motionState' = [motionState EXCEPT ![c] = ProcessNoMotion(@)]
  /\ IF EpisodeOpen(motionState[c])
     THEN /\ EmitMotion(c, t)
          /\ Did(o, Nothing,
                 <<Call("_processNoMotion", c, "-")>> \o MotionCalls(c, "MOTION_END"))
     ELSE /\ NoEmit
          /\ now' = now
          /\ Did(o, Nothing, <<Call("_processNoMotion", c, "-")>>)
  /\ run' = [run EXCEPT ![c] = NoRun]
  /\ UNCHANGED cameras

Drop(o) ==
  /\ Did(o, Nothing, <<>>)
  /\ UNCHANGED <<recVars, timers, alarmVars, motionVars, now, histVars>>

\* attachCamera(camera)
AttachCamera(c) ==
  IF cameras[c].attached
  THEN Drop(<<"attachCamera", c>>)
  ELSE /\ cameras' = [cameras EXCEPT ![c] = [attached |-> TRUE, enabled |-> TRUE]]
       /\ motionState' = [motionState EXCEPT
                            ![c] = [known |-> TRUE, isMotionActive |-> FALSE,
                                    motionStartTime |-> NoTime, lastMotionLevel |-> 0,
                                    consecutiveFrames |-> 0]]
       /\ run' = [run EXCEPT ![c] = NoRun]
       /\ Did(<<"attachCamera", c>>, Nothing, <<>>)
       /\ UNCHANGED <<recVars, timers, alarmVars, now, histVars>>

\* detachCamera(cameraId)
DetachCamera(c) ==
  /\ cameras' = [cameras EXCEPT ![c] = NoCamera]
  /\ motionState' = [motionState EXCEPT ![c] = NoMotionState]
  /\ run' = [run EXCEPT ![c] = NoRun]
  /\ Did(<<"detachCamera", c>>, Nothing, <<>>)
  /\ UNCHANGED <<recVars, timers, alarmVars, now, histVars>>

\* setEnabled(cameraId, enabled)
SetEnabled(c, enabled) ==
  /\ cameras' = [cameras EXCEPT ![c] = IF @.attached THEN [@ EXCEPT !.enabled = enabled] ELSE @]
  /\ Did(<<"setEnabled", c>>, Nothing, <<>>)
  /\ UNCHANGED <<recVars, timers, alarmVars, motionState, run, now, histVars>>

\* onCameraMotionEvent(cameraId, eventData): no validation of the event
OnCameraMotionEvent(c, level, t) ==
  IF Dropped(c)
  THEN Drop(<<"onCameraMotionEvent", c>>)
  ELSE Motion(<<"onCameraMotionEvent", c>>, c, level, t)

\* processFrame(cameraId, frameData)
ProcessFrame(c, frame, t) ==
  IF Dropped(c)
  THEN Drop(<<"processFrame", c>>)
  ELSE IF ValidateMotion(frame)
       THEN Motion(<<"processFrame", c>>, c, frame.motionLevel, t)
       ELSE NoMotion(<<"processFrame", c>>, c, t)

(***************************************************************************)
(* modules/StorageManager.js: the index, the usage statistics and the      *)
(* eviction of the oldest recordings.                                      *)
(*                                                                         *)
(* A storage operation is followed through all its awaits in one step: it  *)
(* carries the in-memory index, the files and the statistics along, and    *)
(* `trace` collects the calls it makes, in program order.                  *)
(***************************************************************************)
\* the constructor's defaults
maxUsagePercent == 90
autoCleanup == TRUE

\* a _calculateHealth that follows the comment on StorageHealth.CRITICAL in
\* shared/types.js, "> 90% full"
CalculateHealthAbove(usagePercent) ==
  IF usagePercent > 90 THEN "CRITICAL"
  ELSE IF usagePercent >= 70 THEN "WARNING"
  ELSE "HEALTHY"

\* _calculateHealth
CalculateHealth(usagePercent) ==
  IF usagePercent >= 90 THEN "CRITICAL"
  ELSE IF usagePercent >= 70 THEN "WARNING"
  ELSE "HEALTHY"

\* _updateStorageStats: fs.stat of every indexed recording; a missing file
\* counts nothing.  The card is taken to be 32 GB: sizes are in percent of it
RECURSIVE UsedPercent(_, _)
UsedPercent(recs, d) ==
  IF recs = <<>> THEN 0 ELSE d[Head(recs).filename] + UsedPercent(Tail(recs), d)

\* [...recordings].sort by timestamp, oldest first; Array.prototype.sort is
\* stable
RECURSIVE SortedByTimestamp(_)
SortedByTimestamp(recs) ==
  IF recs = <<>> THEN <<>>
  ELSE LET e == Last(recs)
           front == SortedByTimestamp(SubSeq(recs, 1, Len(recs) - 1))
           before == SelectSeq(front, LAMBDA x : x.timestamp <= e.timestamp)
           after == SelectSeq(front, LAMBDA x : x.timestamp > e.timestamp)
       IN before \o <<e>> \o after

\* fs.unlink(filePath): done, or the error code it fails with; `failing`
\* are the files that cannot be removed while the operation runs
Unlink(d, failing, f) ==
  IF d[f] = 0 THEN "ENOENT" ELSE IF f \in failing THEN "EACCES" ELSE "ok"

\* a deleteRecording that swallows every unlink error
UnlinkNeverThrows(code) == FALSE

\* deleteRecording's catch: every error but ENOENT is thrown again
UnlinkThrows(code) == code # "ok" /\ code # "ENOENT"

\* recordings.findIndex(r => r.filename === filename), 0 for -1
FindIndex(recs, f) ==
  IF \E i \in 1..Len(recs) : recs[i].filename = f
  THEN CHOOSE i \in 1..Len(recs) :
         /\ recs[i].filename = f
         /\ \A j \in 1..(i - 1) : recs[j].filename # f
  ELSE 0

\* recordings.splice(index, 1)
Splice(recs, i) == SubSeq(recs, 1, i - 1) \o SubSeq(recs, i + 1, Len(recs))

\* deleteRecording up to `if (updateIndex)`: the file is unlinked, then the
\* first entry with that file name is taken out of the index
Unlinked(S, f, updateIndex) ==
  LET code == Unlink(S.disk, S.failing, f)
      i == FindIndex(S.recordings, f)
      tried == Append(S.trace, Call("unlink", f, code))
  IN IF UnlinkThrows(code)
     THEN [S EXCEPT !.trace = tried, !.threw = TRUE]
     ELSE [S EXCEPT
             !.disk = [@ EXCEPT ![f] = 0],
             !.recordings = IF i = 0 THEN @ ELSE Splice(@, i),
             !.trace = IF i = 0 THEN tried
                       ELSE Append(tried,
                                   Call("splice", <<f, updateIndex>>,
                                        <<S.recordings[i], S.recordings>>))]

RECURSIVE UpdateStorageStats(_)
RECURSIVE PerformCleanup(_)
RECURSIVE CleanupLoop(_, _)

\* _updateStorageStats
UpdateStorageStats(S) ==
  LET usagePercent == UsedPercent(S.recordings, S.disk)
      measured == [S EXCEPT
                     !.stats = [usagePercent |-> usagePercent,
                                health |-> CalculateHealth(usagePercent)],
                     !.trace = Append(@, Call("_updateStorageStats", usagePercent, "-"))]
      cleaned == IF autoCleanup /\ usagePercent >= maxUsagePercent
                 THEN PerformCleanup(measured)
                 ELSE measured
  IN IF cleaned.stats.health = "WARNING"
     THEN [cleaned EXCEPT !.trace = Append(@, Emit("storageWarning", Null, usagePercent))]
     ELSE IF cleaned.stats.health = "CRITICAL"
     THEN [cleaned EXCEPT !.trace = Append(@, Emit("storageCritical", Null, usagePercent))]
     ELSE cleaned

\* _performCleanup: the calls "_performCleanup" and "cleanupComplete" carry
\* the usage on record and the length of the index at that moment
PerformCleanup(S) ==
  LET begun == [S EXCEPT
                  !.trace = Append(@, Call("_performCleanup", S.stats.usagePercent,
                                           Len(S.recordings)))]
      done == CleanupLoop(begun, SortedByTimestamp(S.recordings))
  IN [done EXCEPT
        !.trace = Append(@, Call("cleanupComplete", done.stats.usagePercent,
                                 Len(done.recordings)))]

\* the while loop of _performCleanup
CleanupLoop(S, sorted) ==
  IF S.stats.usagePercent > maxUsagePercent - 10 /\ Len(sorted) > 0
  THEN LET oldest == Head(sorted)
           deleted == Unlinked(S, oldest.filename, FALSE)
       IN IF deleted.threw
          THEN CleanupLoop([deleted EXCEPT !.threw = FALSE], Tail(sorted))
          ELSE CleanupLoop(
                 UpdateStorageStats(
                   [deleted EXCEPT
                      !.trace = Append(@, Emit("recordingDeleted", Null, oldest.filename))]),
                 Tail(sorted))
  ELSE S

\* the storage manager's state as an operation finds it
Storage(failing) ==
  [recordings |-> recordings, disk |-> disk, stats |-> stats, failing |-> failing,
   trace |-> <<>>, threw |-> FALSE]

\* the storage manager's state as an operation leaves it
Stored(S) ==
  /\ recordings' = S.recordings
  /\ disk' = S.disk
  /\ stats' = S.stats

\* what no storage operation touches
StorageFrame ==
  UNCHANGED <<state, currentFile, startTime, rtspUrl, activeProcesses, procs, saves,
              timers, alarmVars, motionVars, now, histVars>>

\* _saveIndex: the index file is rewritten with the in-memory index, or
\* fs.writeFile fails and the operation is rejected
SaveIndex(S, written) ==
  [S EXCEPT !.trace = Append(@, Call("_saveIndex", IF written THEN "ok" ELSE "EIO",
                                     S.recordings)),
            !.threw = ~written]

\* an operation that has called _saveIndex leaves the file as written then
Saved(S) ==
  /\ indexFile' = IF S.threw THEN indexFile ELSE S.recordings
  /\ indexExists' = (indexExists \/ ~S.threw)

\* what the storage manager keeps in memory when the process starts
Constructed(failing) ==
  [recordings |-> <<>>, disk |-> disk,
   stats |-> [usagePercent |-> 0, health |-> "HEALTHY"], failing |-> failing,
   trace |-> <<>>, threw |-> FALSE]

\* the members of an index entry, in the order addRecording sets them
EntryKeys == <<"id", "cameraId", "filename", "timestamp", "duration">>

\* JSON.stringify of an entry: its members, name and value, in property
\* order; a member whose value is undefined is left out
StringifyEntry(e) ==
  SelectSeq([i \in 1..Len(EntryKeys) |-> <<EntryKeys[i], e[EntryKeys[i]]>>],
            LAMBDA m : ~(m[1] = "duration" /\ m[2] = Undefined))

\* JSON.stringify(index): the document _saveIndex writes
Stringify(recs, t) ==
  [version |-> "1.0", lastUpdated |-> t,
   recordings |-> [i \in 1..Len(recs) |-> StringifyEntry(recs[i])]]

\* JSON.parse of an entry: an object with the members of the text; reading a
\* member the text does not have gives undefined
ParseEntry(members) ==
  [k \in {EntryKeys[i] : i \in 1..Len(EntryKeys)} |->
     IF \E i \in 1..Len(members) : members[i][1] = k
     THEN members[CHOOSE i \in 1..Len(members) : members[i][1] = k][2]
     ELSE Undefined]

\* a _loadIndex that reads a property the document does not have and falls
\* back to the empty list
ParseNoRecordings(text) == <<>>

\* JSON.parse(data).recordings
ParseRecordings(text) == [i \in 1..Len(text.recordings) |-> ParseEntry(text.recordings[i])]

\* _loadIndex: the index file is read and parsed; when there is none the
\* index is empty and a new file is written; any other read error is thrown
LoadIndex(S, readable, written) ==
  IF ~indexExists
  THEN SaveIndex([S EXCEPT !.recordings = <<>>,
                           !.trace = Append(@, Call("_loadIndex", "ENOENT", <<>>))],
                 written)
  ELSE IF ~readable
  THEN [S EXCEPT !.trace = Append(@, Call("_loadIndex", "EACCES", <<>>)), !.threw = TRUE]
  ELSE LET loaded == ParseRecordings(Stringify(indexFile, now))
       IN [S EXCEPT !.recordings = loaded,
                    !.trace = Append(@, Call("_loadIndex", "ok", loaded))]

\* initialize() in a process that has just started: _loadIndex, then
\* _updateStorageStats; when it rejects the server exits
Initialize(failing, readable, written) ==
  /\ LET loaded == LoadIndex(Constructed(failing), readable, written)
     IN IF loaded.threw
        THEN /\ Stored(loaded)
             /\ UNCHANGED <<indexFile, indexExists>>
             /\ initialized' = FALSE
             /\ Did(<<"initialize", "-">>, Returned(FALSE), loaded.trace)
        ELSE LET S == UpdateStorageStats(loaded)
             IN /\ Stored(S)
                /\ indexFile' = IF indexExists THEN indexFile ELSE <<>>
                /\ indexExists' = TRUE
                /\ initialized' = TRUE
                /\ Did(<<"initialize", "-">>, Returned(TRUE), S.trace)
  /\ nAdded' = nAdded
  /\ StorageFrame

\* addRecording(recording) for a recording of camera c that started at second
\* s; `ret` tells whether the promise resolved
AddRecording(c, s, duration, failing, written) ==
  /\ initialized
  /\ nAdded < MaxAdds
  /\ nAdded' = nAdded + 1
  /\ initialized' = initialized
  /\ LET timestamp == s * TicksPerSecond
         entry == [id |-> <<c, nAdded + 1>>, cameraId |-> c,
                   filename |-> generateVideoFilename(c, timestamp),
                   timestamp |-> timestamp, duration |-> duration]
         pushed == SaveIndex([Storage(failing) EXCEPT
                                !.recordings = Append(@, entry),
                                !.trace = <<Call("recordings.push", c, entry.filename)>>],
                             written)
     IN /\ Saved(pushed)
        /\ IF pushed.threw
           THEN /\ Stored(pushed)
                /\ Did(<<"addRecording", c>>, Returned(FALSE), pushed.trace)
           ELSE LET S == UpdateStorageStats(pushed)
                IN /\ Stored(S)
                   /\ Did(<<"addRecording", c>>, Returned(TRUE),
                          Append(S.trace, Emit("recordingAdded", c, entry.filename)))
  /\ StorageFrame

\* deleteRecording(filename), as the recordings API calls it (updateIndex
\* defaults to true)
DeleteRecording(f, failing, written) ==
  /\ initialized
  /\ LET deleted == Unlinked(Storage(failing), f, TRUE)
     IN IF deleted.threw
        THEN /\ Stored(deleted)
             /\ UNCHANGED <<indexFile, indexExists>>
             /\ Did(<<"deleteRecording", "-">>, Returned(FALSE), deleted.trace)
        ELSE LET saved == SaveIndex(deleted, written)
             IN /\ Saved(saved)
                /\ IF saved.threw
                   THEN /\ Stored(saved)
                        /\ Did(<<"deleteRecording", "-">>, Returned(FALSE), saved.trace)
                   ELSE LET S == UpdateStorageStats(saved)
                        IN /\ Stored(S)
                           /\ Did(<<"deleteRecording", "-">>, Returned(TRUE),
                                  Append(S.trace, Emit("recordingDeleted", Null, f)))
  /\ UNCHANGED <<initialized, nAdded>>
  /\ StorageFrame

\* refresh()
Refresh(failing) ==
  /\ initialized
  /\ LET S == UpdateStorageStats(Storage(failing))
     IN /\ Stored(S)
        /\ Did(<<"refresh", "-">>, Returned(TRUE), S.trace)
  /\ UNCHANGED <<indexFile, indexExists, initialized, nAdded>>
  /\ StorageFrame

\* api/storage.js, POST /cleanup: _performCleanup() called directly
Cleanup(failing) ==
  /\ initialized
  /\ LET S == PerformCleanup(Storage(failing))
     IN /\ Stored(S)
        /\ Did(<<"cleanup", "-">>, Returned(TRUE), S.trace)
  /\ UNCHANGED <<indexFile, indexExists, initialized, nAdded>>
  /\ StorageFrame

\* the world outside the storage manager: a capture writes a recording
\* file, or a file disappears
FileChanges(f, size) ==
  /\ disk[f] # size
  /\ disk' = [disk EXCEPT ![f] = size]
  /\ Did(<<"disk", "-">>, Nothing, <<>>)
  /\ UNCHANGED <<recVars, timers, alarmVars, motionVars, indexFile, indexExists,
                 initialized, stats, nAdded, now, histVars>>

(***************************************************************************)
(* utils/Timer.js: PreciseTimer, call by call, with the host's timeouts.    *)
(***************************************************************************)
\* the timeout the map holds for each of the keys ks
HeldFor(ks) == {Timeout(k, timeoutOf[k]) : k \in ks}

\* a start that sets the new timeout without stopping the key's timer
StoppedFirstNever(ts, k) == {}

\* start: "Clear existing timer if any", this.stop(id)
StoppedFirst(ts, k) == {k} \cap ts

\* start(id, durationMs, callback)
PreciseTimerStart(k) ==
  /\ nTimeouts < MaxTimeouts
  /\ LET h == Timeout(k, nTimeouts + 1)
     IN /\ pending' = (pending \ HeldFor(StoppedFirst(timers, k))) \cup {h}
        /\ timers' = TimerStart(timers, k)
        /\ timeoutOf' = [timeoutOf EXCEPT ![k] = nTimeouts + 1]
        /\ nTimeouts' = nTimeouts + 1
        /\ retired' = retired \cup HeldFor({k} \cap timers)
        /\ ran' = ran
        /\ Did(<<"Timer.start", k[1]>>, Nothing, <<Call("setTimeout", k, nTimeouts + 1)>>)

\* stop(id)
PreciseTimerStop(k) ==
  /\ IF TimerIsActive(timers, k)
     THEN /\ pending' = pending \ HeldFor({k})
          /\ timers' = TimerStop(timers, k)
          /\ timeoutOf' = [timeoutOf EXCEPT ![k] = NoTimeout]
          /\ retired' = retired \cup HeldFor({k})
          /\ Did(<<"Timer.stop", k[1]>>, Returned(TRUE),
                 <<Call("clearTimeout", k, timeoutOf[k])>>)
     ELSE /\ UNCHANGED <<pending, timers, timeoutOf, retired>>
          /\ Did(<<"Timer.stop", k[1]>>, Returned(FALSE), <<>>)
  /\ UNCHANGED <<nTimeouts, ran>>

\* stopAll()
PreciseTimerStopAll ==
  /\ pending' = pending \ HeldFor(timers)
  /\ timers' = TimerStopAll(timers)
  /\ timeoutOf' = [k \in TimerIds |-> NoTimeout]
  /\ retired' = retired \cup HeldFor(timers)
  /\ Did(<<"Timer.stopAll", "-">>, Nothing, <<>>)
  /\ UNCHANGED <<nTimeouts, ran>>

\* the function start hands to setTimeout: timers.delete(id); callback()
TimeoutFires(h) ==
  /\ h \in pending
  /\ pending' = pending \ {h}
  /\ timers' = timers \ {h[1]}
  /\ timeoutOf' = [timeoutOf EXCEPT ![h[1]] = NoTimeout]
  /\ ran' = Append(ran, h)
  /\ Did(<<"timeout", h[1][1]>>, Nothing, <<Call("callback", h[1], h[2])>>)
  /\ UNCHANGED <<nTimeouts, retired>>

\* getRemaining(id): -1 without the key, else what is left of the duration
\* on the clock, never less than 0
GetRemaining(ts, k, left) == IF ~TimerIsActive(ts, k) THEN -1 ELSE IF left > 0 THEN left ELSE 0

PreciseTimerGetRemaining(k, left) ==
  /\ Did(<<"Timer.getRemaining", k[1]>>, Returned(GetRemaining(timers, k, left)), <<>>)
  /\ UNCHANGED <<timers, timeoutVars>>

PreciseTimerIsActive(k) ==
  /\ Did(<<"Timer.isActive", k[1]>>, Returned(TimerIsActive(timers, k)), <<>>)
  /\ UNCHANGED <<timers, timeoutVars>>

(***************************************************************************)
(* Next-state relations.                                                   *)
(*                                                                         *)
(* RecordingSpec: the recording cycle of one camera of the installation,   *)
(* under every call and callback that concerns it.  AlarmSpec: the alarm   *)
(* sequencer of the whole installation, with the timer singleton it        *)
(* shares with the recording controller.                                   *)
(***************************************************************************)
RecordingWithin(C, starts) ==
  \/ \E c \in C, url \in Urls \cup {Null}, t \in now..MaxTime :
       StartRecordingWithin(c, url, t, starts)
  \/ \E c \in C, url \in Urls : RegisterCamera(c, url)
  \/ \E c \in C : RecordingTimerFires(c)
  \/ \E s \in saves : AddRecordingPush(s)
  \/ \E s \in saves : AddRecordingResolves(s)
  \/ \E s \in saves : AddRecordingRejects(s)
  \/ \E c \in C : ResetTimerFires(c)
  \/ \E p \in procs : ProcError(p)
  \/ \E p \in procs : ProcEnd(p)
  \/ \E c \in C : ForceStop(c)
  \/ StopAll

RecordingOf(C) == RecordingWithin(C, MaxStarts)

\* the recording and alarm controllers hold no reference to the detector,
\* and their steps are not those of a storage operation
Elsewhere == UNCHANGED <<motionVars, storeVars, timeoutVars>>

RecordingNext == RecordingOf({"CAM1"}) /\ Elsewhere

RecordingSpec == Init /\ [][RecordingNext]_vars

\* the same camera through one more recording cycle
CaptureNext == RecordingWithin({"CAM1"}, MaxCaptures) /\ Elsewhere

CaptureSpec == Init /\ [][CaptureNext]_vars

AlarmWith(C, H) ==
  \/ \E c \in C, t \in now..MaxTime, h \in H : Trigger(c, t, h)
  \/ \E c \in C, h \in H : AlarmTimerFires(c, h)
  \/ CooldownTimerFires
  \/ \E c \in C \cup {Null}, h \in H : Stop(c, h)
  \/ Arm
  \/ \E h \in H : Disarm(h)
  \/ StopAll

AlarmOf(C) == AlarmWith(C, HardwareOutcomes)

AlarmNext == AlarmOf(Cameras) /\ Elsewhere

AlarmSpec == Init /\ [][AlarmNext]_vars

\* two cameras side by side: both are attached and recorded through every
\* phase of the cycle, by calls of startRecording with a URL or by the
\* listener; the motion events are those of CAM1, arriving at once or when
\* the minimum duration has passed
CamerasNext ==
  \/ /\ \/ \E c \in Cameras : AttachCamera(c)
        \/ \E level \in {20}, t \in {now, minDurationMs} :
             t >= now /\ OnCameraMotionEvent("CAM1", level, t)
     /\ UNCHANGED <<storeVars, timeoutVars>>
  \/ /\ \/ \E c \in Cameras, url \in Urls : StartRecording(c, url, now)
        \/ \E c \in Cameras : RecordingTimerFires(c)
        \/ \E s \in saves : AddRecordingPush(s)
        \/ \E s \in saves : AddRecordingResolves(s)
        \/ \E c \in Cameras : ResetTimerFires(c)
        \/ \E p \in procs : ProcError(p)
        \/ \E c \in Cameras : ForceStop(c)
     /\ Elsewhere

CamerasSpec == Init /\ [][CamerasNext]_vars

\* the event loop runs every due timer callback of the alarm controller
AlarmFairSpec ==
  /\ AlarmSpec
  /\ \A c \in Cameras :
       WF_vars((\E h \in HardwareOutcomes : AlarmTimerFires(c, h)) /\ Elsewhere)
  /\ WF_vars(CooldownTimerFires /\ Elsewhere)

\* the event loop runs every due timer callback, and every started fs call
\* settles
RecordingFairSpec ==
  /\ RecordingSpec
  /\ \A c \in Cameras : WF_vars(RecordingTimerFires(c) /\ Elsewhere)
  /\ \A c \in Cameras : WF_vars(ResetTimerFires(c) /\ Elsewhere)
  /\ WF_vars((\E s \in saves : AddRecordingPush(s)) /\ Elsewhere)
  /\ WF_vars((\E s \in saves : AddRecordingResolves(s) \/ AddRecordingRejects(s))
             /\ Elsewhere)

\* the motion detector of the installation with the listener the server
\* subscribes to it: every frame, camera event and camera-management call
MotionOf(C) ==
  \/ \E c \in C : AttachCamera(c)
  \/ \E c \in C : DetachCamera(c)
  \/ \E c \in C, enabled \in BOOLEAN : SetEnabled(c, enabled)
  \/ \E c \in C, level \in MotionLevels, t \in now..MaxFrameTime :
       OnCameraMotionEvent(c, level, t)
  \/ \E c \in C, frame \in Frames, t \in now..MaxFrameTime : ProcessFrame(c, frame, t)

MotionNext == MotionOf({"CAM1"}) /\ UNCHANGED <<storeVars, timeoutVars>>

MotionSpec == Init /\ [][MotionNext]_vars

\* index.js as a whole, for one camera and no siren attached: the camera's
\* motion events with the listener they reach, together with every call and
\* timer callback of the alarm controller and with stopAll of the recording
\* controller
ServerNext ==
  \/ /\ \/ \E c \in {"CAM1"} : AttachCamera(c)
        \/ \E c \in {"CAM1"}, level \in MotionLevels, t \in now..MaxFrameTime :
             OnCameraMotionEvent(c, level, t)
     /\ UNCHANGED <<storeVars, timeoutVars>>
  \/ AlarmWith({"CAM1"}, {"none"}) /\ Elsewhere

ServerSpec == Init /\ [][ServerNext]_vars

\* the files an unlink can fail on with an error other than ENOENT
Existing == {f \in FileNames : disk[f] # 0}

\* the storage manager under every call of its API and every change of the
\* files beneath it, one storage operation at a time
StorageNext ==
  \/ \E failing \in SUBSET Existing, readable \in BOOLEAN, written \in BOOLEAN :
       Initialize(failing, readable, written)
  \/ \E s \in 0..MaxSecond, duration \in {durationSeconds, Undefined},
        failing \in SUBSET Existing, written \in BOOLEAN :
       AddRecording("CAM1", s, duration, failing, written)
  \/ \E f \in FileNames, failing \in SUBSET Existing, written \in BOOLEAN :
       DeleteRecording(f, failing, written)
  \/ \E failing \in SUBSET Existing : Refresh(failing)
  \/ \E failing \in SUBSET Existing : Cleanup(failing)
  \/ \E f \in FileNames, size \in Sizes \cup {0} : FileChanges(f, size)

StorageSpec == Init /\ [][StorageNext /\ UNCHANGED <<timeoutVars, tasks>>]_vars

(***************************************************************************)
(* modules/StorageManager.js, await by await.                              *)
(*                                                                         *)
(* An operation in flight is the stack of its async functions, each        *)
(* suspended at an await; a step runs from the completion of the awaited   *)
(* file-system call to the next one, through every return in between.      *)
(***************************************************************************)
\* an async function suspended at `at`: the position of the for...of
\* iterator and usedBytes of _updateStorageStats, the file of the pending
\* fs call, the rest of `sorted` of _performCleanup, the entry of
\* addRecording and the text handed to fs.writeFile
Frame(fn, at) ==
  [fn |-> fn, at |-> at, i |-> 0, used |-> 0, awaited |-> NoFile, sorted |-> <<>>,
   entry |-> <<>>, text |-> <<>>]

Top(M) == M.stack[Len(M.stack)]
Pop(M) == [M EXCEPT !.stack = SubSeq(@, 1, Len(@) - 1)]
Push(M, f) == [M EXCEPT !.stack = Append(@, f)]
SetTop(M, f) == [M EXCEPT !.stack = [@ EXCEPT ![Len(@)] = f]]
Logged(M, call) == [M EXCEPT !.trace = Append(@, call)]

\* the storage manager as the operation with these frames finds it
Machine(stack, failing) ==
  [recordings |-> recordings, disk |-> disk, stats |-> stats, failing |-> failing,
   stack |-> stack, trace |-> <<>>]

RECURSIVE Return(_)
RECURSIVE CleanupTurn(_)

\* _performCleanup at the head of its while loop: the oldest of `sorted` is
\* shifted and deleteRecording called, or the function returns
CleanupTurn(M) ==
  LET f == Top(M)
  IN IF M.stats.usagePercent > maxUsagePercent - 10 /\ Len(f.sorted) > 0
     THEN SetTop(M, [f EXCEPT !.at = "fs.unlink",
                              !.awaited = Head(f.sorted).filename,
                              !.sorted = Tail(@)])
     ELSE Return(Pop(Logged(M, Call("cleanupComplete", M.stats.usagePercent,
                                    Len(M.recordings)))))

\* the function on top of the stack goes on after the call it awaited has
\* returned
Return(M) ==
  IF M.stack = <<>> THEN M
  ELSE LET f == Top(M)
       IN IF f.fn = "_performCleanup" THEN CleanupTurn(M)
          ELSE IF f.fn = "addRecording"
          THEN Return(Pop(Logged(M, Emit("recordingAdded", f.entry[1].cameraId,
                                         f.entry[1].filename))))
          ELSE IF M.stats.health = "WARNING"
          THEN Return(Pop(Logged(M, Emit("storageWarning", Null, f.used))))
          ELSE IF M.stats.health = "CRITICAL"
          THEN Return(Pop(Logged(M, Emit("storageCritical", Null, f.used))))
          ELSE Return(Pop(M))

\* _updateStorageStats after its loop: this.stats is assigned, and
\* _performCleanup called when the usage is at the ceiling
StatsAssigned(M, used) ==
  LET f == Top(M)
      measured == SetTop(Logged([M EXCEPT !.stats = [usagePercent |-> used,
                                                     health |-> CalculateHealth(used)]],
                                Call("_updateStorageStats", used, "-")),
                         [f EXCEPT !.at = "_performCleanup", !.used = used])
  IN IF autoCleanup /\ used >= maxUsagePercent
     THEN CleanupTurn(Push(Logged(measured, Call("_performCleanup", used,
                                                 Len(M.recordings))),
                           [Frame("_performCleanup", "-") EXCEPT
                              !.sorted = SortedByTimestamp(M.recordings)]))
     ELSE Return(measured)

\* _updateStorageStats is called: the iterator of this.recordings gives the
\* first entry and fs.stat is awaited, or there is no entry
StatsCalled(M) ==
  IF Len(M.recordings) = 0
  THEN StatsAssigned(Push(M, Frame("_updateStorageStats", "-")), 0)
  ELSE Push(M, [Frame("_updateStorageStats", "fs.stat") EXCEPT
                  !.i = 1, !.awaited = M.recordings[1].filename])

\* fs.stat of _updateStorageStats has settled: a missing file counts
\* nothing; the iterator looks at the array as it is now
StatSettled(M) ==
  LET f == Top(M)
      used == f.used + M.disk[f.awaited]
  IN IF f.i + 1 <= Len(M.recordings)
     THEN SetTop(M, [f EXCEPT !.i = f.i + 1, !.used = used,
                              !.awaited = M.recordings[f.i + 1].filename])
     ELSE StatsAssigned(M, used)

\* fs.unlink of deleteRecording(oldest.filename, false) has settled: the
\* entry is spliced out and _updateStorageStats called, or the error is
\* caught in the loop of _performCleanup
UnlinkSettled(M) ==
  LET f == Top(M)
      code == Unlink(M.disk, M.failing, f.awaited)
      i == FindIndex(M.recordings, f.awaited)
      tried == Logged(M, Call("unlink", f.awaited, code))
  IN IF UnlinkThrows(code)
     THEN CleanupTurn(tried)
     ELSE StatsCalled(
            SetTop(Logged([tried EXCEPT
                             !.disk = [@ EXCEPT ![f.awaited] = 0],
                             !.recordings = IF i = 0 THEN @ ELSE Splice(@, i)],
                          Emit("recordingDeleted", Null, f.awaited)),
                   [f EXCEPT !.at = "_updateStorageStats", !.awaited = NoFile]))

\* addRecording after its fs.stat: the entry is pushed and _saveIndex awaited
EntryPushed(M) ==
  LET f == Top(M)
      pushed == Append(M.recordings, f.entry[1])
  IN SetTop(Logged([M EXCEPT !.recordings = pushed],
                   Call("recordings.push", f.entry[1].cameraId, f.entry[1].filename)),
            [f EXCEPT !.at = "fs.writeFile", !.awaited = NoFile, !.text = pushed])

\* addRecording after _saveIndex: _updateStorageStats is called
IndexSaved(M) ==
  StatsCalled(SetTop(Logged(M, Call("_saveIndex", "ok", Top(M).text)),
                     [Top(M) EXCEPT !.at = "_updateStorageStats"]))

\* the awaited file-system call of the function on top has settled
Resumed(M) ==
  LET f == Top(M)
  IN IF f.at = "fs.unlink" THEN UnlinkSettled(M)
     ELSE IF f.at = "fs.writeFile" THEN IndexSaved(M)
     ELSE IF f.fn = "addRecording" THEN EntryPushed(M)
     ELSE StatSettled(M)

\* no storage operation is in flight
NoneInFlight == \A id \in TaskIds : tasks[id] = NoTask

\* what the operation leaves behind when it is suspended again or done
Suspended(id, o, M) ==
  /\ recordings' = M.recordings
  /\ disk' = M.disk
  /\ stats' = M.stats
  /\ tasks' = [tasks EXCEPT ![id] = IF M.stack = <<>> THEN NoTask
                                    ELSE [op |-> o, stack |-> M.stack]]

\* refresh() is called while other operations may be in flight
RefreshCalled(id) ==
  /\ initialized
  /\ tasks[id] = NoTask
  /\ LET M == StatsCalled(Machine(<<>>, {}))
     IN /\ Suspended(id, "refresh", M)
        /\ Did(<<"refresh", "called">>, Nothing, M.trace)
  /\ UNCHANGED <<indexFile, indexExists, initialized, nAdded>>
  /\ StorageFrame

\* addRecording(recording) is called while other operations may be in flight
AddRecordingCalled(id, c, s, duration) ==
  /\ initialized
  /\ tasks[id] = NoTask
  /\ nAdded < MaxAdds
  /\ nAdded' = nAdded + 1
  /\ LET timestamp == s * TicksPerSecond
         entry == [id |-> <<c, nAdded + 1>>, cameraId |-> c,
                   filename |-> generateVideoFilename(c, timestamp),
                   timestamp |-> timestamp, duration |-> duration]
         M == Push(Machine(<<>>, {}),
                   [Frame("addRecording", "fs.stat") EXCEPT
                      !.awaited = entry.filename, !.entry = <<entry>>])
     IN /\ Suspended(id, "addRecording", M)
        /\ Did(<<"addRecording", "called">>, Nothing, M.trace)
  /\ UNCHANGED <<indexFile, indexExists, initialized>>
  /\ StorageFrame

\* the file-system call an operation awaits settles and the operation runs
\* to its next await or to its end
Settles(id, failing) ==
  /\ tasks[id] # NoTask
  /\ LET M == Resumed(Machine(tasks[id].stack, failing))
         f == tasks[id].stack[Len(tasks[id].stack)]
     IN /\ Suspended(id, tasks[id].op, M)
        /\ indexFile' = IF f.at = "fs.writeFile" THEN f.text ELSE indexFile
        /\ indexExists' = (indexExists \/ f.at = "fs.writeFile")
        /\ Did(<<f.fn, f.at>>, Nothing, M.trace)
  /\ UNCHANGED <<initialized, nAdded>>
  /\ StorageFrame

\* the storage manager with operations overlapping at their awaits; between
\* them, with none in flight, the index is loaded, recordings are added and
\* the files grow
OverlapNext ==
  \/ /\ NoneInFlight
     /\ \/ Initialize({}, TRUE, TRUE)
        \/ \E s \in 0..MaxSecond : AddRecording("CAM1", s, durationSeconds, {}, TRUE)
        \/ \E f \in FileNames, size \in Sizes \cup {0} : FileChanges(f, size)
     /\ UNCHANGED <<timeoutVars, tasks>>
  \/ /\ \/ \E id \in TaskIds : RefreshCalled(id)
        \/ \E id \in TaskIds, s \in 0..MaxSecond :
             AddRecordingCalled(id, "CAM1", s, durationSeconds)
        \/ \E id \in TaskIds, failing \in SUBSET Existing : Settles(id, failing)
     /\ UNCHANGED timeoutVars

OverlapSpec == Init /\ [][OverlapNext]_vars

\* the timer singleton under every call of its API and every timeout of the
\* host coming due
TimerNext ==
  /\ \/ \E k \in TimerIds : PreciseTimerStart(k)
     \/ \E k \in TimerIds : PreciseTimerStop(k)
     \/ PreciseTimerStopAll
     \/ \E h \in pending : TimeoutFires(h)
     \/ \E k \in TimerIds, left \in -1..1 : PreciseTimerGetRemaining(k, left)
     \/ \E k \in TimerIds : PreciseTimerIsActive(k)
  /\ UNCHANGED <<recVars, alarmVars, motionVars, storeVars, now, histVars>>

TimerSpec == Init /\ [][TimerNext]_vars

(***************************************************************************)
(* Properties of the recording controller.                                 *)
(***************************************************************************)
\* what a refused start must leave alone: the camera's phase, file, start
\* time, registered process, pending timers and running commands
CameraView(c) ==
  <<state[c], currentFile[c], startTime[c], activeProcesses[c],
    {k \in timers : k[2] = c}, {p \in procs : p.cam = c}>>

StartStep(c) ==
  op' = <<"startRecording", c>> =>
    /\ ret' = Returned(state[c] = "IDLE")
    /\ state[c] # "IDLE" => (CameraView(c)' = CameraView(c) /\ calls' = <<>>)
    /\ (op = <<"startRecording", c>> /\ ret = Returned(TRUE)) => ret' = Returned(FALSE)

\* C1: startRecording returns true exactly when the camera's phase is IDLE at
\* the call; a refused start leaves the camera's phase, file, start time,
\* timers and capture process as they were; a start that directly follows a
\* successful start of the same camera is refused.
C1_StartOnlyFromIdle == [][\A c \in Cameras : StartStep(c)]_vars

C1_RefusedDuringReset ==
  \E c \in Cameras :
    /\ op = <<"startRecording", c>>
    /\ ret = Returned(FALSE)
    /\ state[c] = "RESET"
    /\ TimerIsActive(timers, TimerKey("reset", c))

\* C2: once a camera is back in IDLE after a successful start, that start
\* has been followed by exactly one recordingComplete or recordingError event
\* of the camera, and a recordingReady event has followed it.
C2_OneOutcomeThenReady ==
  \A c \in Cameras :
    (nStarts[c] > 0 /\ state[c] = "IDLE") =>
      (cycle[c].outcomes = 1 /\ cycle[c].ready)

CyclePath == <<"IDLE", "RECORDING", "SAVING", "RESET", "IDLE">>

IsPrefix(a, b) == Len(a) <= Len(b) /\ \A i \in 1..Len(a) : a[i] = b[i]

EntriesOf(c, n) == {i \in 1..Len(recordings) : recordings[i].id = <<c, n>>}

\* C3: when a camera is IDLE again after a successful start whose duration
\* timer has fired, with no capture error, no forceStop and no failed index
\* write since the start, its phase has gone through IDLE, RECORDING, SAVING,
\* RESET, IDLE in that order and exactly one index entry with its cameraId
\* has been added since the start.
C3_UndisturbedCycle ==
  \A c \in Cameras :
    (nStarts[c] > 0 /\ cycle[c].clean /\ cycle[c].fired /\ state[c] = "IDLE") =>
      (cycle[c].path = CyclePath /\ cycle[c].pushed = 1)

\* The same of a cycle whose start found nothing left over from an earlier
\* cycle of the camera (no suspended save, no ffmpeg command): the path is
\* followed step by step, and the one entry is the cycle's own.
CleanCycleFromQuietStart ==
  \A c \in Cameras :
    (nStarts[c] > 0 /\ cycle[c].clean /\ cycle[c].quiet) =>
      /\ IsPrefix(cycle[c].path, CyclePath)
      /\ Last(cycle[c].path) = state[c]
      /\ cycle[c].pushed <= 1
      /\ state[c] = "IDLE" =>
           /\ cycle[c].fired
           /\ cycle[c].path = CyclePath
           /\ cycle[c].pushed = 1
           /\ Cardinality(EntriesOf(c, nStarts[c])) = 1

ErrorStep(c) ==
  /\ (op' = <<"ffmpeg.error", c>> /\ state[c] = "RECORDING") =>
       /\ Made(calls', Emit("recordingError", c, Null))
       /\ ~TimerIsActive(timers', TimerKey("recording", c))
       /\ TimerIsActive(timers', TimerKey("reset", c))
       /\ state'[c] = "RESET"
       /\ recordings' = recordings
       /\ saves' = saves
  /\ op' = <<"resetTimer", c>> => state'[c] = "IDLE"

\* C4: a capture error that arrives in RECORDING emits recordingError,
\* cancels the duration timer, starts the reset delay and sets RESET; until
\* the camera's next start SAVING is not entered and no index entry of the
\* cycle is pushed; the reset timer's firing sets IDLE.
C4_ErrorWhileRecording ==
  /\ [][\A c \in Cameras : ErrorStep(c)]_vars
  /\ [](\A c \in Cameras :
          cycle[c].errored =>
            /\ state[c] \in {"RESET", "IDLE"}
            /\ EntriesOf(c, nStarts[c]) = {}
            /\ \A s \in saves : ~(s.cam = c /\ s.cyc = nStarts[c]))

C4_ErroredCycleIdle ==
  \E c \in Cameras :
    /\ cycle[c].errored
    /\ cycle[c].ready
    /\ state[c] = "IDLE"

ForceStopStep(c) ==
  op' = <<"forceStop", c>> =>
    /\ state'[c] = "IDLE"
    /\ currentFile'[c] = NoFile
    /\ startTime'[c] = NoTime
    /\ ~TimerIsActive(timers', TimerKey("recording", c))
    /\ ~TimerIsActive(timers', TimerKey("reset", c))
    /\ activeProcesses'[c] = NoProc
    /\ Before(calls', Call("Timer.stop", "recording", c), SetState(c, "IDLE"))
    /\ Before(calls', Call("Timer.stop", "reset", c), SetState(c, "IDLE"))

\* C5: forceStop can be taken in every phase; after it the camera is IDLE,
\* file and start time are cleared, neither the recording nor the reset
\* timer of the camera is pending, no process is registered, and both
\* Timer.stop calls come before the phase is set.
C5_ForceStop ==
  /\ [][\A c \in Cameras : ForceStopStep(c)]_vars
  /\ [](\A c \in Cameras : ENABLED ForceStop(c))

C5_ForceStoppedWhileCapturing ==
  \E c \in Cameras :
    /\ op = <<"forceStop", c>>
    /\ Made(calls, Call("stopFFmpeg", c, nStarts[c]))
    /\ nStarts[c] > 0
    /\ state[c] = "IDLE"

\* C6: under the fairness of timers and index writes, a camera that is not
\* IDLE is IDLE again later.
C6_ReturnsToIdle ==
  \A c \in Cameras : (state[c] # "IDLE") ~> (state[c] = "IDLE")

C6_IdleAfterDisturbedCycle ==
  \E c \in Cameras :
    /\ op = <<"resetTimer", c>>
    /\ nStarts[c] > 0
    /\ ~cycle[c].clean
    /\ state[c] = "IDLE"

LegalTransitions ==
  {<<"IDLE", "RECORDING">>, <<"RECORDING", "SAVING">>, <<"SAVING", "RESET">>,
   <<"RESET", "IDLE">>, <<"RECORDING", "RESET">>}

PhaseStep(c) ==
  state'[c] # state[c] =>
    \/ <<state[c], state'[c]>> \in LegalTransitions
    \/ state'[c] = "IDLE" /\ op' \in {<<"forceStop", c>>, <<"stopAll", "-">>}

\* C7: every change of a camera's phase is IDLE to RECORDING, RECORDING to
\* SAVING, SAVING to RESET, RESET to IDLE, RECORDING to RESET, or a change to
\* IDLE made by forceStop.
C7_LegalTransitionsOnly == [][\A c \in Cameras : PhaseStep(c)]_vars

\* C8: a successful startRecording assigns a file name that no earlier
\* successful start has assigned.
C8_FreshFilename ==
  [][\A c \in Cameras :
       (op' = <<"startRecording", c>> /\ ret' = Returned(TRUE)) =>
         currentFile'[c] \notin filesUsed]_vars

\* what a cycle of the camera consists of: its phase, file, start time,
\* registered process and pending timers
CycleView(c) ==
  <<state[c], currentFile[c], startTime[c], activeProcesses[c], {k \in timers : k[2] = c}>>

\* the step resumes a suspended index write, or delivers the 'error' event of
\* an ffmpeg command, that belongs to an earlier cycle of the camera
StaleCallback(c) ==
  \/ \E s \in saves \ saves' : s.cam = c /\ s.cyc < nStarts[c]
  \/ /\ op' = <<"ffmpeg.error", c>>
     /\ \E p \in procs \ procs' : p.cam = c /\ p.cyc < nStarts[c]

\* C24: once a camera has been started again, a callback that belongs to an
\* earlier cycle of the camera (the continuation of its index write, the
\* error of its capture process) changes neither the phase, the file, the
\* start time, the timers nor the capture process of the cycle in progress.
C24_StaleCallbackIgnored ==
  [][\A c \in Cameras :
       (state[c] # "IDLE" /\ StaleCallback(c)) => CycleView(c)' = CycleView(c)]_vars

\* the duration timer's callback in a phase other than RECORDING
LateTimerStep(c) ==
  (op' = <<"recordingTimer", c>> /\ state[c] # "RECORDING") =>
    /\ calls' = <<>>
    /\ state'[c] = state[c]
    /\ currentFile'[c] = currentFile[c]
    /\ startTime'[c] = startTime[c]
    /\ activeProcesses'[c] = activeProcesses[c]
    /\ UNCHANGED <<recordings, saves, procs>>
    /\ \A k \in timers : k # TimerKey("recording", c) => k \in timers'

\* C25: when the recording timer's callback runs while the camera's phase is
\* not RECORDING it changes nothing: phase, file, start time, capture process
\* and index stay as they are, and addRecording is not called.
C25_LateTimerIgnored == [][\A c \in Cameras : LateTimerStep(c)]_vars

\* the duration timer has just fired on a camera that an earlier cycle's
\* index write had already moved to RESET
C25_FiredDuringReset ==
  \E c \in Cameras :
    /\ op = <<"recordingTimer", c>>
    /\ calls = <<>>
    /\ state[c] = "RESET"
    /\ currentFile[c] # NoFile
    /\ TimerIsActive(timers, TimerKey("reset", c))

\* the step hands the camera's recording to the storage manager
AddRecordingCalls(c) ==
  Cardinality({i \in 1..Len(calls') : calls'[i][1] = "addRecording" /\ calls'[i][2] = c})

\* addRecording is called by the duration timer's callback in RECORDING, once,
\* and by nothing else; the cycle it is called for has no index write yet,
\* suspended or done; and RECORDING is entered by a successful start only
IndexedOncePerStart(c) ==
  /\ AddRecordingCalls(c) <= 1
  /\ AddRecordingCalls(c) = 1 <=> (op' = <<"recordingTimer", c>> /\ state[c] = "RECORDING")
  /\ AddRecordingCalls(c) = 1 =>
       /\ state'[c] = "SAVING"
       /\ \A s \in saves : ~(s.cam = c /\ s.cyc = nStarts[c])
       /\ EntriesOf(c, nStarts[c]) = {}
       /\ \E s \in saves' : s.cam = c /\ s.cyc = nStarts[c] /\ s.filename = currentFile[c]
  /\ (state'[c] = "RECORDING" /\ state[c] # "RECORDING") =>
       (op' = <<"startRecording", c>> /\ ret' = Returned(TRUE) /\ nStarts'[c] = nStarts[c] + 1)
  /\ nStarts'[c] # nStarts[c] => (state'[c] = "RECORDING" /\ state[c] = "IDLE")

\* a failed index write goes on to RESET and starts the reset delay
FailedWriteStep(c) ==
  op' = <<"addRecording.rejected", c>> =>
    /\ state'[c] = "RESET"
    /\ TimerIsActive(timers', TimerKey("reset", c))
    /\ Before(calls', SetState(c, "RESET"), Call("Timer.start", "reset", c))

\* C26: for each successful start addRecording is invoked at most once, and
\* exactly once when the duration timer fires in RECORDING; no cycle has more
\* than one index entry; a failed index write is followed by RESET and the
\* reset delay all the same, and the camera is IDLE again later.
C26_IndexedOnce ==
  /\ [][\A c \in Cameras : IndexedOncePerStart(c) /\ FailedWriteStep(c)]_vars
  /\ [](\A c \in Cameras : \A n \in 1..MaxStarts : Cardinality(EntriesOf(c, n)) <= 1)
  /\ \A c \in Cameras : (op = <<"addRecording.rejected", c>>) ~> (state[c] = "IDLE")

\* a camera is IDLE again, by its reset timer, after the index write of its
\* cycle failed: the entry pushed before the write stays in the index
C26_IdleAfterFailedWrite ==
  \E c \in Cameras :
    /\ op = <<"resetTimer", c>>
    /\ state[c] = "IDLE"
    /\ nStarts[c] = 1
    /\ ~cycle[c].clean
    /\ cycle[c].outcomes = 0
    /\ Cardinality(EntriesOf(c, 1)) = 1
    /\ saves = {}

\* C27: in every state a camera has a file name and a start time exactly
\* when its phase is not IDLE.
C27_FileIffNotIdle ==
  \A c \in Cameras :
    /\ currentFile[c] # NoFile <=> state[c] # "IDLE"
    /\ startTime[c] # NoTime <=> state[c] # "IDLE"

(***************************************************************************)
(* Properties of the alarm controller.                                     *)
(***************************************************************************)
TriggerStep(c) ==
  op' = <<"trigger", c>> =>
    IF alarmState \in {"DISARMED", "COOLDOWN"} \/ IsActive(cameraAlarms, c)
    THEN /\ ret' = Returned(FALSE)
         /\ UNCHANGED <<alarmState, cameraAlarms, timers>>
         /\ calls' = <<>>
    ELSE /\ ret' = Returned(TRUE)
         /\ alarmState' = "TRIGGERED"
         /\ IsActive(cameraAlarms', c)
         /\ \A d \in Cameras \ {c} : cameraAlarms'[d] = cameraAlarms[d]
         /\ CountCalls(calls', Call("activateHardwareAlarm", "-", "-")) = 1
         /\ Made(calls', Call("Timer.start", "alarm", c))
         /\ timers' = timers \cup {TimerKey("alarm", c)}

\* C9: trigger returns false and changes neither the mode, the entries nor
\* the timers and makes no call when the mode is DISARMED or COOLDOWN or the
\* camera's entry is active; otherwise it returns true, sets TRIGGERED,
\* marks the camera's entry active, activates the hardware once and starts
\* the camera's alarm timer.
C9_Trigger == [][\A c \in Cameras : TriggerStep(c)]_vars

C9_RefusedWhileActive ==
  \E c \in Cameras :
    /\ op = <<"trigger", c>>
    /\ ret = Returned(FALSE)
    /\ alarmState = "TRIGGERED"
    /\ IsActive(cameraAlarms, c)
    /\ TimerIsActive(timers, TimerKey("alarm", c))

\* C10: the mode is TRIGGERED exactly when some camera's entry is active.
C10_TriggeredIffActive == (alarmState = "TRIGGERED") <=> AnyActive(cameraAlarms)

HardwareDeactivate == Call("deactivateHardwareAlarm", "-", "-")

SomeActive(alarms) == \E d \in Cameras : alarms[d].known /\ alarms[d].isActive

AlarmTimers(ts) == {k \in ts : k[1] = "alarm"}

AlarmTimeoutStep(c) ==
  op' = <<"alarmTimer", c>> =>
    /\ ~(cameraAlarms'[c].known /\ cameraAlarms'[c].isActive)
    /\ \A d \in Cameras \ {c} : cameraAlarms'[d] = cameraAlarms[d]
    /\ IF SomeActive(cameraAlarms')
       THEN /\ alarmState' = alarmState
            /\ ~Made(calls', HardwareDeactivate)
            /\ TimerIsActive(timers', CooldownKey) = TimerIsActive(timers, CooldownKey)
       ELSE /\ alarmState' = "COOLDOWN"
            /\ CountCalls(calls', HardwareDeactivate) = 1
            /\ TimerIsActive(timers', CooldownKey)

CooldownStep ==
  /\ (alarmState' = "COOLDOWN" /\ alarmState # "COOLDOWN") =>
       \E c \in Cameras : op' = <<"alarmTimer", c>>
  /\ (alarmState = "COOLDOWN" /\ op' = <<"cooldownTimer", "-">>) => alarmState' = "ARMED"
  /\ (alarmState = "COOLDOWN" /\ alarmState' # "COOLDOWN") =>
       \/ op' \in {<<"cooldownTimer", "-">>, <<"arm", "-">>, <<"disarm", "-">>}
       \/ \E c \in Cameras \cup {Null} : op' = <<"stop", c>>

\* C11: the firing of a camera's alarm timer makes that camera's entry
\* inactive; if no entry is active then, the hardware is deactivated once,
\* the mode becomes COOLDOWN and the cooldown timer is pending, otherwise mode
\* and hardware are left alone.  The mode becomes COOLDOWN in no other step;
\* it leaves COOLDOWN only by the cooldown timer, which sets ARMED, or by
\* stop, arm or disarm.
C11_AlarmTimeout ==
  [][CooldownStep /\ \A c \in Cameras : AlarmTimeoutStep(c)]_vars

C11_TimeoutWithOtherActive ==
  \E c, d \in Cameras :
    /\ op = <<"alarmTimer", c>>
    /\ alarmState = "TRIGGERED"
    /\ cameraAlarms[c].known
    /\ ~cameraAlarms[c].isActive
    /\ cameraAlarms[d].isActive

StopStep(c) ==
  op' = <<"stop", c>> =>
    /\ alarmState' = "ARMED"
    /\ CountCalls(calls', HardwareDeactivate) = 1
    /\ ~Made(calls', Call("alarmState=", "COOLDOWN", "-"))
    /\ TimerIsActive(timers', CooldownKey) = TimerIsActive(timers, CooldownKey)
    /\ IF c # Null
       THEN /\ ~TimerIsActive(timers', TimerKey("alarm", c))
            /\ ~(cameraAlarms'[c].known /\ cameraAlarms'[c].isActive)
            /\ \A d \in Cameras \ {c} :
                 /\ cameraAlarms'[d] = cameraAlarms[d]
                 /\ TimerIsActive(timers', TimerKey("alarm", d))
                      = TimerIsActive(timers, TimerKey("alarm", d))
       ELSE /\ ~SomeActive(cameraAlarms')
            /\ AlarmTimers(timers') = {}

\* C12: stop(cameraId) cancels that camera's alarm timer and makes its entry
\* inactive, leaving the other cameras' timers and entries alone; stop()
\* leaves no entry active and no alarm timer pending; both deactivate the
\* hardware once and set the mode to ARMED, without assigning COOLDOWN or
\* starting the cooldown timer.
C12_Stop == [][\A c \in Cameras \cup {Null} : StopStep(c)]_vars

C12_StoppedAllEntries ==
  /\ op = <<"stop", Null>>
  /\ alarmState = "ARMED"
  /\ \A c \in Cameras : cameraAlarms[c].known /\ ~cameraAlarms[c].isActive
  /\ AlarmTimers(timers) = {}

DisarmStep ==
  (op' = <<"disarm", "-">> /\ alarmState = "TRIGGERED") =>
    /\ alarmState' = "DISARMED"
    /\ Before(calls', Call("alarmState=", "ARMED", "-"), Call("alarmState=", "DISARMED", "-"))
    /\ ~Made(calls', Call("alarmState=", "COOLDOWN", "-"))
    /\ ~SomeActive(cameraAlarms')
    /\ AlarmTimers(timers') = {}
    /\ CountCalls(calls', HardwareDeactivate) = 1

\* C13: disarm() in mode TRIGGERED assigns ARMED and after it DISARMED, never
\* COOLDOWN; it leaves no entry active and no alarm timer pending, and
\* deactivates the hardware exactly once.
C13_DisarmWhileTriggered == [][DisarmStep]_vars

C13_DisarmedWithEntries ==
  /\ op = <<"disarm", "-">>
  /\ alarmState = "DISARMED"
  /\ \E c \in Cameras : cameraAlarms[c].known


\* the calls of a step apart from those on the hardware interface
ApartFromHardware(cs) == SelectSeq(cs, LAMBDA x : x[1] # "hardwareInterface")

\* the calls of a handler that ran to its end with working hardware
TriggerCalls(c) ==
  <<Call("alarmState=", "TRIGGERED", "-"), Call("activateHardwareAlarm", "-", "-"),
    Emit("alarmTriggered", c, Null), Call("Timer.start", "alarm", c)>>

LastTimeoutCalls(c) ==
  <<Call("deactivateHardwareAlarm", "-", "-"), Call("alarmState=", "COOLDOWN", "-"),
    Call("Timer.start", "alarm_cooldown", "-"), Emit("alarmStopped", c, Null)>>

StoppedCalls(c) ==
  <<Call("Timer.stop", "alarm", IF c # Null THEN c ELSE "*"),
    Call("deactivateHardwareAlarm", "-", "-"),
    Call("alarmState=", "ARMED", "-"), Emit("alarmStopped", c, Null)>>

\* what trigger, the alarm timer, stop and disarm do, whatever the hardware did
HardwareBlindStep ==
  /\ \A c \in Cameras :
       /\ (op' = <<"trigger", c>> /\ ret' # Returned(FALSE)) =>
            /\ ret' = Returned(TRUE)
            /\ alarmState' = "TRIGGERED"
            /\ cameraAlarms' = [cameraAlarms EXCEPT ![c] =
                                  [known |-> TRUE, isActive |-> TRUE, triggeredAt |-> now']]
            /\ timers' = timers \cup {TimerKey("alarm", c)}
            /\ ApartFromHardware(calls') = TriggerCalls(c)
       /\ op' = <<"alarmTimer", c>> =>
            /\ cameraAlarms' = Deactivated(cameraAlarms, c)
            /\ IF AnyActive(cameraAlarms')
               THEN /\ alarmState' = alarmState
                    /\ timers' = timers \ {TimerKey("alarm", c)}
                    /\ calls' = <<Emit("alarmStopped", c, Null)>>
               ELSE /\ alarmState' = "COOLDOWN"
                    /\ timers' = (timers \ {TimerKey("alarm", c)}) \cup {CooldownKey}
                    /\ ApartFromHardware(calls') = LastTimeoutCalls(c)
  /\ \A c \in Cameras \cup {Null} :
       op' = <<"stop", c>> =>
         /\ alarmState' = "ARMED"
         /\ cameraAlarms' = StopAlarms(cameraAlarms, c)
         /\ timers' = StopTimers(timers, cameraAlarms, c)
         /\ ApartFromHardware(calls') = StoppedCalls(c)
  /\ op' = <<"disarm", "-">> =>
       /\ alarmState' = "DISARMED"
       /\ cameraAlarms' = StopAlarms(cameraAlarms, Null)
       /\ timers' = StopTimers(timers, cameraAlarms, Null)
       /\ ApartFromHardware(calls') = StoppedCalls(Null) \o
            <<Call("alarmState=", "DISARMED", "-"), Emit("alarmDisarmed", Null, Null)>>

\* C28: no exception leaves trigger, stop, disarm or the alarm timer's
\* callback when the hardware's activate or deactivate throws, and the mode,
\* the entries, the timers and the emitted events of the step are those of
\* the same step with working hardware.
C28_HardwareFailureContained ==
  [][~Made(calls', Thrown) /\ HardwareBlindStep]_vars

C28_TriggeredWithFailingSiren ==
  \E c \in Cameras :
    /\ op = <<"trigger", c>>
    /\ Made(calls, Call("hardwareInterface", "activate", "throws"))
    /\ ret = Returned(TRUE)
    /\ alarmState = "TRIGGERED"
    /\ TimerIsActive(timers, TimerKey("alarm", c))
    /\ Made(calls, Emit("alarmTriggered", c, Null))


(***************************************************************************)
(* Properties of the motion detector and of its listener.                  *)
(***************************************************************************)
MotionStart(c) == Emit("motion", c, "MOTION_START")
MotionEnd(c) == Emit("motion", c, "MOTION_END")

\* the step ran _processMotion for the camera: it handled a candidate frame
CandidateStep(c) ==
  \E level \in MotionLevels : Made(calls', Call("_processMotion", c, level))

\* the step ran _processNoMotion for the camera
NonCandidateStep(c) == Made(calls', Call("_processNoMotion", c, "-"))

EmittedIn(recent) == Cardinality({i \in 1..Len(recent) : recent[i].emitted})

\* the debounce gate, frame by frame
DebounceStep(c) ==
  LET st == motionState[c]
      episodeStartTime == IF st.isMotionActive THEN st.motionStartTime ELSE now'
      counted == st.consecutiveFrames + 1
      emitted == CountCalls(calls', MotionStart(c))
  IN /\ emitted <= 1
     /\ emitted = 1 => CandidateStep(c)
     /\ CandidateStep(c) =>
          (emitted = 1 <=> (now' - episodeStartTime >= minDurationMs /\ counted >= 3))
     /\ emitted = 1 =>
          /\ motionState'[c].motionStartTime = now'
          /\ motionState'[c].consecutiveFrames = 0

\* the debounce gate, over the candidate frames in a row
DebouncedRun(r) ==
  /\ (r.len > 0 /\ Last(r.recent).emitted) =>
       (r.len = 3 /\ Last(r.recent).t - r.start >= minDurationMs)
  /\ (Len(r.recent) = 3 /\ r.recent[3].t - r.recent[1].t >= minDurationMs) =>
       EmittedIn(r.recent) = 1

\* C14: MOTION_START is emitted only on a candidate frame at which the time
\* since the episode start is at least minDurationMs and the frame count is
\* at least 3, at most once per frame, and the episode start is then the
\* current time and the counter 0; candidate frames in a row that are fewer
\* than three or span less than minDurationMs emit none, and three in a row
\* that span at least minDurationMs emit exactly one.
C14_Debounce ==
  [][\A c \in Cameras : DebounceStep(c) /\ DebouncedRun(run'[c])]_vars

\* the minimal qualifying sequence: three candidate frames, the third
\* minDurationMs after the first, confirmed on the third
C14_ConfirmedOnThirdFrame ==
  LET r == run["CAM1"]
  IN /\ Made(calls, MotionStart("CAM1"))
     /\ Len(r.recent) = 3
     /\ r.start = r.recent[1].t
     /\ r.recent[3].t - r.recent[1].t = minDurationMs
     /\ ~r.recent[1].emitted /\ ~r.recent[2].emitted /\ r.recent[3].emitted
     /\ motionState["CAM1"].consecutiveFrames = 0
     /\ motionState["CAM1"].motionStartTime = now

\* the counter grows only on a candidate frame
CountedOnlyOnCandidate(c) ==
  motionState'[c].consecutiveFrames > motionState[c].consecutiveFrames => CandidateStep(c)

\* the opening candidate frame starts the episode and leaves the counter as
\* it was; candidate frames of an open episode are the only ones counted
OpeningUncountedStep(c) ==
  /\ (CandidateStep(c) /\ ~motionState[c].isMotionActive) =>
       /\ motionState'[c].isMotionActive
       /\ motionState'[c].motionStartTime = now'
       /\ motionState'[c].consecutiveFrames = motionState[c].consecutiveFrames
  /\ motionState'[c].consecutiveFrames > motionState[c].consecutiveFrames =>
       (CandidateStep(c) /\ motionState[c].isMotionActive)

\* C29, as the claim states it: a candidate frame that opens an episode sets
\* the episode start and does not increment the frame counter, and only
\* candidate frames that arrive while an episode is open increment it.
C29_OpeningFrameNotCounted == [][\A c \in Cameras : OpeningUncountedStep(c)]_vars

\* every candidate frame is counted, the opening one as the first
CountedStep(c) ==
  LET st == motionState[c]
      confirmed == Made(calls', MotionStart(c))
  IN CandidateStep(c) =>
       /\ motionState'[c].isMotionActive
       /\ ~st.isMotionActive =>
            /\ st.consecutiveFrames = 0
            /\ motionState'[c].motionStartTime = now'
            /\ motionState'[c].consecutiveFrames = 1
            /\ ~confirmed
       /\ (st.isMotionActive /\ ~confirmed) =>
            /\ motionState'[c].motionStartTime = st.motionStartTime
            /\ motionState'[c].consecutiveFrames = st.consecutiveFrames + 1
       /\ confirmed => motionState'[c].consecutiveFrames = 0

\* C29, amended: a candidate frame that opens an episode sets the episode
\* start to the current time and counts as the first frame (the counter goes
\* from 0 to 1); a candidate frame of an open episode increments the counter
\* unless it confirms motion, which sets it to 0; no other step increments it.
C29_OpeningFrameCounted ==
  [][\A c \in Cameras : CountedStep(c) /\ CountedOnlyOnCandidate(c)]_vars

\* the first candidate frame after frames that were none: an episode opened
C29_EpisodeOpened ==
  /\ \E level \in MotionLevels : Made(calls, Call("_processMotion", "CAM1", level))
  /\ run["CAM1"].len = 1
  /\ motionState["CAM1"].isMotionActive
  /\ motionState["CAM1"].motionStartTime = now
  /\ motionState["CAM1"].consecutiveFrames = 1

\* a frame that is not a candidate, as the detector handles it
EpisodeCloseStep(c) ==
  LET open == motionState[c].isMotionActive
      ended == CountCalls(calls', MotionEnd(c))
  IN /\ ended <= 1
     /\ ended = 1 => (NonCandidateStep(c) /\ run[c].len > 0)
     /\ NonCandidateStep(c) =>
          /\ ended = 1 <=> open
          /\ open =>
               /\ ~motionState'[c].isMotionActive
               /\ motionState'[c].consecutiveFrames = 0
          /\ ~open =>
               /\ calls' = <<Call("_processNoMotion", c, "-")>>
               /\ UNCHANGED <<recVars, timers, alarmVars, cameras, motionState, now,
                              histVars>>

\* C15: a non-candidate frame closes the episode and emits one MOTION_END
\* exactly when an episode is open for the camera; with none open it emits
\* nothing and changes no state; every MOTION_END follows a candidate frame
\* that came after the previous non-candidate frame.
C15_EpisodeClose == [][\A c \in Cameras : EpisodeCloseStep(c)]_vars

\* a non-candidate frame has just closed the episode of CAM1
C15_EpisodeClosed ==
  /\ op = <<"processFrame", "CAM1">>
  /\ Made(calls, MotionEnd("CAM1"))
  /\ ~motionState["CAM1"].isMotionActive
  /\ run["CAM1"] = NoRun

\* the listener's calls for a camera, made in the step
Triggered(c) == Made(calls', Call("trigger", c, "-"))
StartRequested(c) == Made(calls', Call("startRecording", c, "-"))

\* C16: AlarmController.trigger and RecordingController.startRecording are
\* invoked by the motion path only in a step that emits a confirmed motion
\* (MOTION_START) event for the camera, never on a MOTION_END event or on a
\* candidate frame short of the debounce gate.
C16_OnlyOnConfirmedMotion ==
  [][\A c \in Cameras :
       (Triggered(c) \/ StartRequested(c)) => Made(calls', MotionStart(c))]_vars


\* a frame or a camera event for a camera the detector does not hold
UnknownCameraStep(c) ==
  (op' \in {<<"processFrame", c>>, <<"onCameraMotionEvent", c>>} /\ ~cameras[c].attached) =>
    /\ calls' = <<>>
    /\ ret' = Nothing
    /\ motionState'[c] = NoMotionState
    /\ UNCHANGED <<cameras, motionState, run, recVars, timers, alarmVars, histVars>>

\* C23: a frame or a camera motion event for a camera that is not attached,
\* because it never was or because it was detached, is dropped: nothing is
\* emitted, no listener runs, no motion state is created or changed, and the
\* call returns normally.
C23_UnknownCameraDropped == [][\A c \in Cameras : UnknownCameraStep(c)]_vars

\* a frame has just been dropped for a camera that was detached while the
\* recording its motion had started was still running
C23_DroppedAfterDetach ==
  /\ op = <<"processFrame", "CAM1">>
  /\ ~cameras["CAM1"].attached
  /\ motionState["CAM1"] = NoMotionState
  /\ state["CAM1"] = "RECORDING"
  /\ calls = <<>>

(***************************************************************************)
(* Properties of the storage manager.                                      *)
(***************************************************************************)
\* the positions in the step's calls of the calls of one name
CallsOf(name) == {i \in 1..Len(calls') : calls'[i][1] = name}

\* the index entries an eviction run removes: each with the index it was
\* removed from
Evicted == {calls'[i][3] : i \in {j \in CallsOf("splice") : ~calls'[j][2][2]}}

\* C17: an eviction run that removes an entry was started with the usage on
\* record at or above the ceiling (autoCleanup being on), and when a run ends
\* the usage on record is at most the ceiling minus 10 or the index is
\* empty.  (Every run ends: the step that holds it is a step of the model.)
C17_EvictionRun ==
  [][/\ Evicted # {} =>
          \A i \in CallsOf("_performCleanup") :
            autoCleanup /\ calls'[i][2] >= maxUsagePercent
     /\ \A i \in CallsOf("cleanupComplete") :
          calls'[i][2] <= maxUsagePercent - 10 \/ calls'[i][3] = 0]_vars

\* C18: eviction removes an entry only when the index holds no entry with an
\* older timestamp at that moment.
C18_OldestFirst ==
  [][\A e \in Evicted :
       \A i \in 1..Len(e[2]) : e[2][i].timestamp >= e[1].timestamp]_vars

\* C19: an operation that has added or removed an index entry and returned
\* leaves the index file holding exactly the entries of the in-memory index.
C19_IndexPersisted ==
  [][(recordings' # recordings /\ ret' = Returned(TRUE)) => indexFile' = recordings']_vars

\* the file removal comes first: an entry is taken out of the index only
\* right after an unlink of its file that succeeded or found no file, and
\* the index is written only after that
RemovalFirst ==
  \A i \in CallsOf("splice") :
    /\ i > 1
    /\ calls'[i - 1][1] = "unlink"
    /\ calls'[i - 1][2] = calls'[i][2][1]
    /\ calls'[i - 1][3] \in {"ok", "ENOENT"}
    /\ calls'[i][3][1].filename = calls'[i][2][1]
    /\ \A j \in CallsOf("_saveIndex") : calls'[i][2][2] => i < j

\* deleteRecording(filename) as the API calls it
DeleteStep ==
  op' = <<"deleteRecording", "-">> =>
    LET f == calls'[1][2]
        code == calls'[1][3]
        indexed == \E i \in 1..Len(recordings) : recordings[i].filename = f
        writes == CallsOf("_saveIndex")
    IN /\ calls'[1][1] = "unlink"
       /\ code = "ENOENT" <=> disk[f] = 0
       /\ code \in {"ok", "ENOENT"} =>
            /\ disk'[f] = 0
            /\ indexed <=> (CallsOf("splice") # {} /\ calls'[2][1] = "splice")
            /\ indexed => /\ calls'[2][3][2] = recordings
                          /\ calls'[2][3][1] \in {recordings[i] : i \in 1..Len(recordings)}
            /\ Cardinality(writes) = 1
            /\ \A j \in writes :
                 /\ Len(calls'[j][3]) = Len(recordings) - (IF indexed THEN 1 ELSE 0)
                 /\ indexed => calls'[j][3] # recordings
                 /\ calls'[j][2] = "ok" => (ret' = Returned(TRUE) /\ indexFile' = calls'[j][3])
                 /\ calls'[j][2] # "ok" => ret' = Returned(FALSE)
       /\ code \notin {"ok", "ENOENT"} =>
            /\ ret' = Returned(FALSE)
            /\ Len(calls') = 1
            /\ UNCHANGED <<recordings, indexFile, disk, stats>>

\* C20: deleteRecording(filename) treats a file that is already missing as
\* removed: the entry is taken out of the index and the index is written, and
\* the call succeeds when that write does; in every deletion the file removal
\* comes before the entry is taken out and the index is written; a removal
\* that fails for another reason leaves the index, in memory and on disk, as
\* it was.
C20_DeleteRecording == [][RemovalFirst /\ DeleteStep]_vars

\* deleteRecording has just succeeded for an indexed recording whose file was
\* already missing
C20_DeletedMissingFile ==
  /\ op = <<"deleteRecording", "-">>
  /\ ret = Returned(TRUE)
  /\ Len(calls) >= 3
  /\ calls[1][1] = "unlink" /\ calls[1][3] = "ENOENT"
  /\ calls[2][1] = "splice"
  /\ calls[3][1] = "_saveIndex" /\ calls[3][3] = indexFile

\* the health of a usage percentage, by the three bands
HealthOf(u) == IF u < 70 THEN "HEALTHY" ELSE IF u < 90 THEN "WARNING" ELSE "CRITICAL"

RoundTripStep ==
  \A i \in CallsOf("_loadIndex") :
    calls'[i][2] = "ok" =>
      /\ Len(calls'[i][3]) = Len(indexFile)
      /\ \A j \in 1..Len(indexFile) :
           \A n \in 1..Len(EntryKeys) :
             calls'[i][3][j][EntryKeys[n]] = indexFile[j][EntryKeys[n]]

\* a start without an index file: the index in memory is empty, and the
\* start fails only if the new index file cannot be written
MissingIndexStep ==
  (op' = <<"initialize", "-">> /\ ~indexExists) =>
    /\ calls'[1] = Call("_loadIndex", "ENOENT", <<>>)
    /\ calls'[2][1] = "_saveIndex" /\ calls'[2][3] = <<>>
    /\ ret' = Returned(calls'[2][2] = "ok")
    /\ ret' = Returned(TRUE) => (indexExists' /\ indexFile' = <<>>)
    /\ recordings' = <<>>

PendingFor(k) == {h \in pending : h[1] = k}

\* at most one timeout is pending per key, the one the map holds, and a key
\* is in the map exactly while its timeout is pending
OnePendingPerKey ==
  \A k \in TimerIds :
    /\ Cardinality(PendingFor(k)) <= 1
    /\ PendingFor(k) = (IF k \in timers THEN {Timeout(k, timeoutOf[k])} ELSE {})

\* no callback has run twice
RanAtMostOnce ==
  \A i, j \in 1..Len(ran) : ran[i] = ran[j] => i = j

\* a start on a key with a pending timer takes that timer's timeout away and
\* leaves its own as the key's only one
ReplacingStartStep(k) ==
  op' = <<"Timer.start", k[1]>> =>
    /\ PendingFor(k) \cap PendingFor(k)' = {}
    /\ PendingFor(k)' = {Timeout(k, nTimeouts')}
    /\ k \in timers'

\* a callback runs only for a timer that was neither stopped nor replaced
RunsOnlyLive == ran' # ran => (ran' = Append(ran, Last(ran')) /\ Last(ran') \notin retired)

\* once a timer has fired or been stopped, its key is absent
AbsentAfter(k) ==
  ((op' \in {<<"Timer.stop", k[1]>>, <<"Timer.stopAll", "-">>}) \/
   (op' = <<"timeout", k[1]>>)) =>
     /\ k \notin timers'
     /\ PendingFor(k)' = {}

\* what the timer reports of a key
ReportStep(k) ==
  /\ op' = <<"Timer.isActive", k[1]>> => ret' = Returned(k \in timers)
  /\ op' = <<"Timer.getRemaining", k[1]>> =>
       /\ k \notin timers => ret' = Returned(-1)
       /\ k \in timers => ret'[1] >= 0

\* C30: a start on a key with a pending timer cancels that timer first, so
\* at most one timer is pending per key; the callback of a started timer
\* runs at most once, and never after stop, stopAll or a later start on the
\* key; after a timer has fired or been stopped its key is absent: isActive
\* is false and getRemaining is -1.
C30_OneTimerPerKey ==
  /\ [](OnePendingPerKey /\ RanAtMostOnce)
  /\ [][/\ RunsOnlyLive
        /\ \A k \in TimerIds : ReplacingStartStep(k) /\ AbsentAfter(k) /\ ReportStep(k)]_vars

\* a timer was replaced by a later start on its key, and the later one has
\* fired: the key is absent and getRemaining says so
C30_ReplacedThenFired ==
  \E k \in TimerIds :
    /\ Timeout(k, 1) \in retired
    /\ Timeout(k, 2) \in {ran[i] : i \in 1..Len(ran)}
    /\ op = <<"Timer.getRemaining", k[1]>>
    /\ ret = Returned(-1)
    /\ ~TimerIsActive(timers, k)

(***************************************************************************)
(* Further properties of the alarm controller.                             *)
(***************************************************************************)
\* the mode leaves DISARMED only by arm()
DisarmedUntilArmed ==
  (alarmState = "DISARMED" /\ alarmState' # "DISARMED") => op' = <<"arm", "-">>

\* the cooldown timer's callback changes the mode only out of COOLDOWN
CooldownOnlyFromCooldown ==
  (op' = <<"cooldownTimer", "-">> /\ alarmState' # alarmState) => alarmState = "COOLDOWN"

\* C34: once disarmed, the mode stays DISARMED until arm() is called: no
\* timer firing changes it, and the cooldown timer's callback changes the
\* mode only when the mode is COOLDOWN.
C34_DisarmedUntilArmed == [][DisarmedUntilArmed /\ CooldownOnlyFromCooldown]_vars

\* C35: whenever the mode is DISARMED or COOLDOWN, no camera's alarm entry is
\* active and no camera's alarm timer is pending.
C35_QuietWhenDisarmedOrCooldown ==
  alarmState \in {"DISARMED", "COOLDOWN"} =>
    /\ ~AnyActive(cameraAlarms)
    /\ \A c \in Cameras : ~TimerIsActive(timers, TimerKey("alarm", c))

\* the last alarm timed out while another camera's alarm had been stopped
C35_CooldownAfterStopAndTimeout ==
  /\ alarmState = "COOLDOWN"
  /\ op = <<"alarmTimer", "CAM1">>
  /\ cameraAlarms["CAM2"].known
  /\ TimerIsActive(timers, CooldownKey)

(***************************************************************************)
(* Further properties of the recording controller.                         *)
(***************************************************************************)
\* C36: a camera in RECORDING has its recording timer pending, and a
\* camera's reset timer is pending only while the camera is in RESET.
C36_TimersMatchPhase ==
  \A c \in Cameras :
    /\ state[c] = "RECORDING" => TimerIsActive(timers, TimerKey("recording", c))
    /\ TimerIsActive(timers, TimerKey("reset", c)) => state[c] = "RESET"

\* a second cycle is recording, its timer pending, while the index write of
\* the force-stopped first cycle is still to settle
C36_RecordingOverPendingSave ==
  /\ state["CAM1"] = "RECORDING"
  /\ nStarts["CAM1"] = 2
  /\ TimerIsActive(timers, TimerKey("recording", "CAM1"))
  /\ ~TimerIsActive(timers, TimerKey("reset", "CAM1"))
  /\ \E s \in saves : s.cam = "CAM1" /\ s.cyc = 1

\* the capture processes of the camera that are running: launched, their
\* 'end' or 'error' still to come, and not sent SIGTERM
Running(c) == {p \in procs : p.cam = c /\ ~p.killed}

\* C37: at most one capture process of a camera is running at any time: none
\* is launched while an earlier one of the camera has neither finished, failed
\* nor been terminated.
C37_OneCapturePerCamera == \A c \in Cameras : Cardinality(Running(c)) <= 1

\* the index write that the step lets _saveRecording resume from
ResumedSave(c) == {s \in saves \ saves' : s.cam = c}

\* the recordingComplete events of the step for the camera
CompletedWith(c, file) == Made(calls', Emit("recordingComplete", c, file))

\* C38: every recordingComplete event carries the file name that the start of
\* the saved cycle assigned and that was passed to addRecording, never null
\* and never the name of a later cycle, whatever happened to the camera while
\* the index write was pending.
C38_CompleteCarriesSavedFile ==
  [][\A c \in Cameras :
       /\ ~CompletedWith(c, NoFile)
       /\ \A file \in filesUsed :
            CompletedWith(c, file) => \E s \in ResumedSave(c) : s.filename = file]_vars

(***************************************************************************)
(* The 'motion' listener of index.js: alarm and recording side by side.    *)
(***************************************************************************)
\* the listener ran for camera c in this step
ListenerRan(c) == Made(calls', Call("trigger", c, "-"))

\* the recording of c starts in this step
RecordingBegins(c) ==
  /\ state'[c] = "RECORDING"
  /\ startTime'[c] = now'
  /\ nStarts'[c] = nStarts[c] + 1
  /\ TimerIsActive(timers', TimerKey("recording", c))

\* the alarm of c is triggered in this step
AlarmBegins(c) ==
  /\ alarmState' = "TRIGGERED"
  /\ cameraAlarms'[c] = [known |-> TRUE, isActive |-> TRUE, triggeredAt |-> now']
  /\ TimerIsActive(timers', TimerKey("alarm", c))

\* trigger accepts camera c: armed or triggered, and c's alarm not active
AlarmAccepts(c) ==
  /\ alarmState \in {"ARMED", "TRIGGERED"}
  /\ ~(cameraAlarms[c].known /\ cameraAlarms[c].isActive)

\* C32: on each confirmed motion the listener calls trigger and then
\* startRecording; the recording starts exactly when the camera is IDLE,
\* whatever the alarm's mode or the camera's alarm, and the alarm is
\* triggered exactly when the alarm controller accepts the camera, whatever
\* the recording phase
C32_AlarmAndRecordingIndependent ==
  [][\A c \in Cameras :
       ListenerRan(c) =>
         /\ Before(calls', Call("trigger", c, "-"), Call("startRecording", c, "-"))
         /\ (state[c] = "IDLE") = RecordingBegins(c)
         /\ state[c] # "IDLE" => UNCHANGED <<state, startTime, currentFile, nStarts>>
         /\ AlarmAccepts(c) = AlarmBegins(c)
         /\ ~AlarmAccepts(c) => UNCHANGED alarmVars]_vars

\* a recording started by a confirmed motion while no alarm had ever been
\* accepted: the alarm was disarmed when the listener ran
C32_RecordedWhileDisarmed ==
  /\ Made(calls, Call("trigger", "CAM1", "-"))
  /\ alarmState = "DISARMED"
  /\ ~cameraAlarms["CAM1"].known
  /\ state["CAM1"] = "RECORDING"
  /\ startTime["CAM1"] = now

(***************************************************************************)
(* RecordingController.stopAll() and the alarm's timers.                    *)
(***************************************************************************)
\* the timers of the alarm controller: alarm_<id> and alarm_cooldown
AlarmOwned(ts) == AlarmTimers(ts) \cup ({CooldownKey} \cap ts)

\* C39: a stopAll() of the recording controller leaves the alarm's mode and
\* entries, every pending alarm_<id> timer and the pending cooldown timer as
\* they were
C39_StopAllKeepsAlarmTimers ==
  [][op' = <<"stopAll", "-">> =>
       /\ UNCHANGED alarmVars
       /\ AlarmOwned(timers') = AlarmOwned(timers)]_vars

(***************************************************************************)
(* The alarm comes to rest.                                                 *)
(***************************************************************************)
\* from some point on trigger is not called any more
NoMoreTriggers == <>[][op'[1] # "trigger"]_vars

AtRest == ~AnyActive(cameraAlarms) /\ alarmState \in {"ARMED", "DISARMED"}

\* C40: when the calls of trigger come to an end and the pending timers
\* fire, an active entry is followed by a call of _deactivateHardwareAlarm,
\* and from some point on no entry is active and the mode is ARMED or
\* DISARMED
C40_AlarmComesToRest ==
  NoMoreTriggers =>
    /\ [](AnyActive(cameraAlarms) => <>Made(calls, HardwareDeactivate))
    /\ <>[]AtRest

(***************************************************************************)
(* One camera's operations and the other camera.                           *)
(***************************************************************************)
\* what the controllers and the detector hold for camera b
OfCamera(b) ==
  <<state[b], currentFile[b], startTime[b], activeProcesses[b],
    {p \in procs : p.cam = b}, {k \in timers : k[2] = b}, motionState[b]>>

\* a startRecording for b, called directly or by the listener, is accepted
\* exactly when b is IDLE
StartDependsOnOwnPhase(b) ==
  /\ op' = <<"startRecording", b>> => ret' = Returned(state[b] = "IDLE")
  /\ Made(calls', Call("startRecording", b, "-")) =>
       (state[b] = "IDLE") = (nStarts'[b] = nStarts[b] + 1 /\ state'[b] = "RECORDING")

\* C31: a call, timer callback, capture error, index-write completion or
\* motion event of camera a leaves camera b's phase, file, start time,
\* capture process, timers and MotionState as they were, and whether a
\* startRecording for b is accepted depends on b's phase alone
C31_OtherCameraUntouched ==
  [][\A a \in Cameras : \A b \in Cameras \ {a} :
       /\ op'[2] = a => OfCamera(b)' = OfCamera(b)
       /\ StartDependsOnOwnPhase(b)]_vars

\* the capture of CAM1 fails while CAM2, attached, is recording
C31_ErrorBesideRecording ==
  /\ op = <<"ffmpeg.error", "CAM1">>
  /\ state["CAM1"] = "RESET"
  /\ state["CAM2"] = "RECORDING"
  /\ activeProcesses["CAM2"] # NoProc
  /\ TimerIsActive(timers, TimerKey("recording", "CAM2"))
  /\ motionState["CAM2"].known

(***************************************************************************)
(* Storage operations overlapping at their awaits.                         *)
(***************************************************************************)
Entries(recs) == {recs[i] : i \in 1..Len(recs)}

\* within one process an entry leaves the in-memory index only in a step
\* that unlinks its file, and the entry addRecording pushes is appended to the
\* index as it is then
NoEntryLost ==
  /\ op' # <<"initialize", "-">> =>
       \A e \in Entries(recordings) \ Entries(recordings') :
         \E code \in {"ok", "ENOENT"} : Made(calls', Call("unlink", e.filename, code))
  /\ op' = <<"addRecording", "fs.stat">> =>
       /\ Len(recordings') = Len(recordings) + 1
       /\ SubSeq(recordings', 1, Len(recordings)) = recordings

\* an eviction in flight takes an entry out only while the files of the
\* index fill more than the ceiling less ten points
EvictsOnlyAboveTarget ==
  (op'[2] = "fs.unlink" /\ Entries(recordings') # Entries(recordings)) =>
    UsedPercent(recordings, disk) > maxUsagePercent - 10

\* C33: with storage operations overlapping at their awaits, the in-memory
\* index never loses a newly added entry, and the evictions delete no entry
\* once the usage has dropped to the ceiling less ten points or below
C33_OverlapKeepsIndexAndStopsEvicting == [][NoEntryLost /\ EvictsOnlyAboveTarget]_vars

====
